---- MODULE Spec2Model ----
(***************************************************************************)
(* Model of the dental chart viewer (components/dental3d/JawViewer.tsx,    *)
(* its dentist control panel and the two API routes it talks to).          *)
(*                                                                         *)
(* Units.  Lengths are integers in hundredths of a world unit (0.5 -> 50). *)
(* Marker sizes are integers in thousandths (0.035 -> 35).  Scores of the  *)
(* surface locator are fixed-point numbers scaled by ScoreScale.           *)
(***************************************************************************)
EXTENDS Integers, Sequences, FiniteSets, TLC

\* ------------------------------------------------------------------ nulls
\* null of a string | null field
Null == "null"
\* null of a number | null field (tooth numbers are >= 0)
NullNum == -1
\* null of a THREE.Vector3 | null field
NullVec == [null |-> TRUE]

\* ------------------------------------------------------------------ bounds
MaxCavities == 3
MaxNotes == 2
MaxInflight == 1

\* ------------------------------------------------------- Tooth registry
\* The table in source (insertion) order, which is the order Object.entries
\* walks it in.
TOOTH_MAP ==
  << [obj |-> "jaw.014", name |-> "Upper Gum", isGum |-> TRUE, quadrant |-> Null, toothNumber |-> NullNum],
     [obj |-> "jaw.029", name |-> "Lower Gum", isGum |-> TRUE, quadrant |-> Null, toothNumber |-> NullNum],
     [obj |-> "jaw",     name |-> "Central Incisor", isGum |-> FALSE, quadrant |-> "Upper Right", toothNumber |-> 8],
     [obj |-> "jaw.003", name |-> "Lateral Incisor", isGum |-> FALSE, quadrant |-> "Upper Right", toothNumber |-> 7],
     [obj |-> "jaw.004", name |-> "Canine",          isGum |-> FALSE, quadrant |-> "Upper Right", toothNumber |-> 6],
     [obj |-> "jaw.002", name |-> "First Premolar",  isGum |-> FALSE, quadrant |-> "Upper Right", toothNumber |-> 5],
     [obj |-> "jaw.001", name |-> "Second Premolar", isGum |-> FALSE, quadrant |-> "Upper Right", toothNumber |-> 4],
     [obj |-> "jaw.005", name |-> "First Molar",     isGum |-> FALSE, quadrant |-> "Upper Right", toothNumber |-> 3],
     [obj |-> "jaw.006", name |-> "Second Molar",    isGum |-> FALSE, quadrant |-> "Upper Right", toothNumber |-> 2],
     [obj |-> "jaw.007", name |-> "Central Incisor", isGum |-> FALSE, quadrant |-> "Upper Left", toothNumber |-> 9],
     [obj |-> "jaw.010", name |-> "Lateral Incisor", isGum |-> FALSE, quadrant |-> "Upper Left", toothNumber |-> 10],
     [obj |-> "jaw.011", name |-> "Canine",          isGum |-> FALSE, quadrant |-> "Upper Left", toothNumber |-> 11],
     [obj |-> "jaw.009", name |-> "First Premolar",  isGum |-> FALSE, quadrant |-> "Upper Left", toothNumber |-> 12],
     [obj |-> "jaw.008", name |-> "Second Premolar", isGum |-> FALSE, quadrant |-> "Upper Left", toothNumber |-> 13],
     [obj |-> "jaw.012", name |-> "First Molar",     isGum |-> FALSE, quadrant |-> "Upper Left", toothNumber |-> 14],
     [obj |-> "jaw.013", name |-> "Second Molar",    isGum |-> FALSE, quadrant |-> "Upper Left", toothNumber |-> 15],
     [obj |-> "jaw.015", name |-> "Central Incisor", isGum |-> FALSE, quadrant |-> "Lower Right", toothNumber |-> 25],
     [obj |-> "jaw.019", name |-> "Lateral Incisor", isGum |-> FALSE, quadrant |-> "Lower Right", toothNumber |-> 26],
     [obj |-> "jaw.018", name |-> "Canine",          isGum |-> FALSE, quadrant |-> "Lower Right", toothNumber |-> 27],
     [obj |-> "jaw.017", name |-> "First Premolar",  isGum |-> FALSE, quadrant |-> "Lower Right", toothNumber |-> 28],
     [obj |-> "jaw.016", name |-> "Second Premolar", isGum |-> FALSE, quadrant |-> "Lower Right", toothNumber |-> 29],
     [obj |-> "jaw.020", name |-> "First Molar",     isGum |-> FALSE, quadrant |-> "Lower Right", toothNumber |-> 30],
     [obj |-> "jaw.021", name |-> "Second Molar",    isGum |-> FALSE, quadrant |-> "Lower Right", toothNumber |-> 31],
     [obj |-> "jaw.022", name |-> "Central Incisor", isGum |-> FALSE, quadrant |-> "Lower Left", toothNumber |-> 24],
     [obj |-> "jaw.026", name |-> "Lateral Incisor", isGum |-> FALSE, quadrant |-> "Lower Left", toothNumber |-> 23],
     [obj |-> "jaw.025", name |-> "Canine",          isGum |-> FALSE, quadrant |-> "Lower Left", toothNumber |-> 22],
     [obj |-> "jaw.024", name |-> "First Premolar",  isGum |-> FALSE, quadrant |-> "Lower Left", toothNumber |-> 21],
     [obj |-> "jaw.023", name |-> "Second Premolar", isGum |-> FALSE, quadrant |-> "Lower Left", toothNumber |-> 20],
     [obj |-> "jaw.027", name |-> "First Molar",     isGum |-> FALSE, quadrant |-> "Lower Left", toothNumber |-> 19],
     [obj |-> "jaw.028", name |-> "Second Molar",    isGum |-> FALSE, quadrant |-> "Lower Left", toothNumber |-> 18] >>

\* The keys of the table.
ObjNames == { TOOTH_MAP[i].obj : i \in DOMAIN TOOTH_MAP }

\* TOOTH_MAP[objectName]: the entry of a key, Null for a key that is not there.
MapEntry(objectName) ==
  IF objectName \in ObjNames
    THEN TOOTH_MAP[CHOOSE i \in DOMAIN TOOTH_MAP : TOOTH_MAP[i].obj = objectName]
    ELSE [obj |-> Null]

\* String.prototype.toLowerCase on the strings the model passes around: the
\* spellings of a tooth name or quadrant in title, upper and lower case.
LowerTable ==
  [ s \in { "Central Incisor", "CENTRAL INCISOR", "central incisor",
            "Lateral Incisor", "LATERAL INCISOR", "lateral incisor",
            "Canine", "CANINE", "canine",
            "First Premolar", "FIRST PREMOLAR", "first premolar",
            "Second Premolar", "SECOND PREMOLAR", "second premolar",
            "First Molar", "FIRST MOLAR", "first molar",
            "Second Molar", "SECOND MOLAR", "second molar",
            "Upper Gum", "upper gum", "Lower Gum", "lower gum",
            "Upper Right", "UPPER RIGHT", "upper right",
            "Upper Left", "UPPER LEFT", "upper left",
            "Lower Right", "LOWER RIGHT", "lower right",
            "Lower Left", "LOWER LEFT", "lower left" } |->
    CASE s \in {"Central Incisor", "CENTRAL INCISOR", "central incisor"} -> "central incisor"
      [] s \in {"Lateral Incisor", "LATERAL INCISOR", "lateral incisor"} -> "lateral incisor"
      [] s \in {"Canine", "CANINE", "canine"} -> "canine"
      [] s \in {"First Premolar", "FIRST PREMOLAR", "first premolar"} -> "first premolar"
      [] s \in {"Second Premolar", "SECOND PREMOLAR", "second premolar"} -> "second premolar"
      [] s \in {"First Molar", "FIRST MOLAR", "first molar"} -> "first molar"
      [] s \in {"Second Molar", "SECOND MOLAR", "second molar"} -> "second molar"
      [] s \in {"Upper Gum", "upper gum"} -> "upper gum"
      [] s \in {"Lower Gum", "lower gum"} -> "lower gum"
      [] s \in {"Upper Right", "UPPER RIGHT", "upper right"} -> "upper right"
      [] s \in {"Upper Left", "UPPER LEFT", "upper left"} -> "upper left"
      [] s \in {"Lower Right", "LOWER RIGHT", "lower right"} -> "lower right"
      [] s \in {"Lower Left", "LOWER LEFT", "lower left"} -> "lower left" ]

\* s.toLowerCase(); a string with no letter to fold (or already lower case and
\* outside the table) is returned as it is.
ToLower(s) == IF s \in DOMAIN LowerTable THEN LowerTable[s] ELSE s

\* String.prototype.includes on the lower-cased names of the table: a name
\* holds itself and, for the molars and premolars, the bare word.
StrIncludes(s, sub) ==
  \/ s = sub
  \/ sub = "molar" /\ s \in {"first molar", "second molar"}
  \/ sub = "premolar" /\ s \in {"first premolar", "second premolar"}

isGumObject(objectName) ==
  LET info == MapEntry(objectName)
  IN  info.obj # Null /\ info.isGum

\* A match on a part of the tooth name instead of the whole name.
NameMatches_Partial(toothType, quadrant) ==
  { i \in DOMAIN TOOTH_MAP :
      /\ ~TOOTH_MAP[i].isGum
      /\ StrIncludes(ToLower(TOOTH_MAP[i].name), ToLower(toothType))
      /\ ToLower(TOOTH_MAP[i].quadrant) = ToLower(quadrant) }

\* The indices of the non-gum entries that match, in table order.
NameMatches(toothType, quadrant) ==
  { i \in DOMAIN TOOTH_MAP :
      /\ ~TOOTH_MAP[i].isGum
      /\ ToLower(TOOTH_MAP[i].name) = ToLower(toothType)
      /\ ToLower(TOOTH_MAP[i].quadrant) = ToLower(quadrant) }

\* A reverse lookup that forgets to compare the quadrant.
findObjectName_AnyQuadrant(toothType, quadrant) ==
  LET hits == { i \in DOMAIN TOOTH_MAP :
                  ~TOOTH_MAP[i].isGum /\ ToLower(TOOTH_MAP[i].name) = ToLower(toothType) }
  IN  IF hits = {} THEN Null
      ELSE TOOTH_MAP[CHOOSE i \in hits : \A j \in hits : i <= j].obj

\* Reverse lookup: the first entry, in table order, whose name and quadrant
\* match case-insensitively; null when none does.
findObjectName(toothType, quadrant) ==
  LET hits == NameMatches(toothType, quadrant)
  IN  IF hits = {} THEN Null
      ELSE TOOTH_MAP[CHOOSE i \in hits : \A j \in hits : i <= j].obj

\* The first non-gum entry with that tooth number; null when there is none.
findObjectNameByToothNumber(toothNumber) ==
  LET hits == { i \in DOMAIN TOOTH_MAP :
                  ~TOOTH_MAP[i].isGum /\ TOOTH_MAP[i].toothNumber = toothNumber }
  IN  IF hits = {} THEN Null
      ELSE TOOTH_MAP[CHOOSE i \in hits : \A j \in hits : i <= j].obj

\* Forward lookup.  Absent fields of the returned object are the nulls.
getToothInfo(objectName) ==
  LET info == MapEntry(objectName)
  IN  IF info.obj # Null
        THEN IF info.isGum
               THEN [toothNumber |-> NullNum, displayName |-> info.name,
                     quadrant |-> Null, isGum |-> TRUE]
               ELSE [toothNumber |-> info.toothNumber, displayName |-> info.name,
                     quadrant |-> info.quadrant, isGum |-> FALSE]
        ELSE [toothNumber |-> NullNum, displayName |-> objectName,
              quadrant |-> Null, isGum |-> FALSE]

\* --------------------------------------------------------------- vectors
Vec(x, y, z) == [x |-> x, y |-> y, z |-> z]
VAdd(a, b) == Vec(a.x + b.x, a.y + b.y, a.z + b.z)
VSub(a, b) == Vec(a.x - b.x, a.y - b.y, a.z - b.z)
VScale(a, k) == Vec(a.x * k, a.y * k, a.z * k)
VDot(a, b) == a.x * b.x + a.y * b.y + a.z * b.z
Max2(a, b) == IF a >= b THEN a ELSE b
Min2(a, b) == IF a <= b THEN a ELSE b
Abs(a) == IF a >= 0 THEN a ELSE -a

\* a / b to the nearest integer, b > 0.
DivRound(a, b) == (2 * a + b) \div (2 * b)

RECURSIVE ISqrtIn(_, _, _)
\* The largest r in lo..hi with r*r <= n, by bisection.
ISqrtIn(n, lo, hi) ==
  IF lo >= hi THEN lo
  ELSE LET mid == (lo + hi + 1) \div 2
       IN  IF mid * mid <= n THEN ISqrtIn(n, mid, hi) ELSE ISqrtIn(n, lo, mid - 1)

\* floor(sqrt(n)) for 0 <= n < 2^30.
ISqrt(n) == ISqrtIn(n, 0, 32767)

\* Fixed-point scale of the locator's scores: a score s is held as s * ScoreScale.
ScoreScale == 1000
\* Lengths are taken to a hundredth of a length unit before dividing.
LenScale == 100

\* ------------------------------------------------------------ directions
SurfaceDirections == {"occlusal", "buccal", "lingual", "mesial", "distal"}

\* The unit vector of a surface name (components are 0, 1 or -1).
getDirectionVector(position) ==
  CASE position = "occlusal" -> Vec(0, 1, 0)
    [] position = "buccal"   -> Vec(1, 0, 0)
    [] position = "lingual"  -> Vec(-1, 0, 0)
    [] position = "mesial"   -> Vec(0, 0, 1)
    [] position = "distal"   -> Vec(0, 0, -1)
    [] OTHER                 -> Vec(0, 1, 0)

\* ------------------------------------------------------------ geometry
\* A vertex of a geometry: local position and unit normal.
Vtx(p, n) == [p |-> p, n |-> n]

\* The geometries the mesh source can hand over.  hasPosition / hasNormal say
\* whether the BufferGeometry carries the attribute; verts is the vertex
\* buffer (position and normal of vertex i at index i+1).
\*   molarUpper, molarLower: two ordinary crowns, a few vertices each;
\*   empty:      both attributes present, zero vertices;
\*   noNormals:  a position attribute and no normal attribute;
\*   noAttrs:    neither attribute.
Geometry ==
  [ molarUpper |->
      [hasPosition |-> TRUE, hasNormal |-> TRUE,
       verts |-> << Vtx(Vec(-160, 250, -20), Vec(-1, 0, 0)),
                    Vtx(Vec(-140, 270, -20), Vec(0, 1, 0)),
                    Vtx(Vec(-120, 250, -20), Vec(1, 0, 0)),
                    Vtx(Vec(-140, 230, -20), Vec(0, -1, 0)) >>],
    molarLower |->
      [hasPosition |-> TRUE, hasNormal |-> TRUE,
       verts |-> << Vtx(Vec(-130, 190, -10), Vec(0, -1, 0)),
                    Vtx(Vec(-110, 210, -10), Vec(1, 0, 0)),
                    Vtx(Vec(-130, 230, -10), Vec(0, 1, 0)),
                    Vtx(Vec(-150, 210, -10), Vec(-1, 0, 0)) >>],
    empty |->
      [hasPosition |-> TRUE, hasNormal |-> TRUE, verts |-> << >>],
    noNormals |->
      [hasPosition |-> TRUE, hasNormal |-> FALSE,
       verts |-> << Vtx(Vec(100, 240, 0), NullVec),
                    Vtx(Vec(120, 260, 20), NullVec),
                    Vtx(Vec(140, 250, 10), NullVec) >>],
    noAttrs |->
      [hasPosition |-> FALSE, hasNormal |-> FALSE, verts |-> << >>] ]

GeometryIds == DOMAIN Geometry

\* positionAttribute.count
VertexCount(g) == IF g.hasPosition THEN Len(g.verts) ELSE 0

\* vertex.applyMatrix4(mesh.matrixWorld): the world matrix of a mesh of the
\* jaw is the model's fixed placement (folded into the vertex data) followed
\* by the mesh's own translation along Y, which the chewing animation moves.
ToWorld(p, ty) == Vec(p.x, p.y + ty, p.z)

\* new THREE.Box3().setFromObject(mesh): the world-space box of the position
\* attribute; empty when there is no attribute or no vertex.
BoundingBox(g, ty) ==
  IF VertexCount(g) = 0
    THEN [empty |-> TRUE]
    ELSE LET W == { ToWorld(g.verts[i].p, ty) : i \in 1..Len(g.verts) }
             lo(S) == CHOOSE v \in S : \A w \in S : v <= w
             hi(S) == CHOOSE v \in S : \A w \in S : v >= w
         IN  [empty |-> FALSE,
              min |-> Vec(lo({w.x : w \in W}), lo({w.y : w \in W}), lo({w.z : w \in W})),
              max |-> Vec(hi({w.x : w \in W}), hi({w.y : w \in W}), hi({w.z : w \in W}))]

\* Box3.getCenter: the origin for an empty box.
BoxCenter(box) ==
  IF box.empty THEN Vec(0, 0, 0)
  ELSE Vec((box.min.x + box.max.x) \div 2, (box.min.y + box.max.y) \div 2,
           (box.min.z + box.max.z) \div 2)

\* Box3.getSize: zero for an empty box.
BoxSize(box) ==
  IF box.empty THEN Vec(0, 0, 0)
  ELSE VSub(box.max, box.min)

\* Math.max(size.x, size.y, size.z)
MaxDim(size) == Max2(size.x, Max2(size.y, size.z))

\* ------------------------------------------------------ surface locator
\* Math.min(positionAttribute.count, 100)
SampleLimit == 100
SampleCount(count) == Min2(count, SampleLimit)

\* Math.floor(count / sampleCount); 0/0 is NaN, for which the loop's
\* condition 0 < 0 already fails, so the value is never used.
SampleStep(count) == IF count = 0 THEN 0 ELSE count \div SampleCount(count)

\* The 0-based indices the loop `for (i = 0; i < count; i += step)` visits.
SampleIndices(count) ==
  IF count = 0 THEN {}
  ELSE { i \in 0..(count - 1) : i % SampleStep(count) = 0 }

\* normalize(worldVertex - center) . direction, as a fixed-point score.
\* Vector3.normalize leaves the zero vector as it is.
DirectionScore(worldVertex, center, direction) ==
  LET d == VSub(worldVertex, center)
      len == ISqrt(VDot(d, d) * LenScale * LenScale)
  IN  IF len = 0 THEN 0
      ELSE DivRound(VDot(d, direction) * ScoreScale * LenScale, len)

\* worldNormal . direction; the model's normals are unit vectors, and a pure
\* translation leaves a direction as it is.
NormalScore(worldNormal, direction) == VDot(worldNormal, direction) * ScoreScale

\* directionScore * 0.7 + normalScore * 0.3, times ten.
TotalScore(v, ty, center, direction) ==
  7 * DirectionScore(ToWorld(v.p, ty), center, direction)
    + 3 * NormalScore(v.n, direction)

\* The sampling loop shared by the three places that locate a surface point:
\* the index of the sampled vertex the scan ends on, -1 when it visits none.
\* A later vertex replaces the best one only on a strictly larger score.
BestSampledIndex(g, ty, center, direction) ==
  LET I == SampleIndices(VertexCount(g))
      score(i) == TotalScore(g.verts[i + 1], ty, center, direction)
  IN  IF I = {} THEN -1
      ELSE CHOOSE i \in I :
             /\ \A j \in I : score(j) <= score(i)
             /\ \A j \in I : score(j) = score(i) => i <= j

\* A fallback that stays at the centre of the box.
FallbackPoint_AtCenter(center, size, direction) ==
  [position |-> center, normal |-> direction, found |-> FALSE]

\* The fallback of the two cavity locators: the point 0.4 * maxDim from the
\* centre along the direction, with the direction as normal.  Lengths are
\* hundredths, so D * (maxDim * 0.4) is D * (4 * maxDim / 10).
FallbackPoint(center, size, direction) ==
  [position |-> VAdd(center, VScale(direction, (MaxDim(size) * 4) \div 10)),
   normal |-> direction, found |-> FALSE]

\* placeCavityOnTooth, from the bounding box to the surface point: the best
\* sampled vertex, else the fallback.
LocateForCavity(g, ty, cavityPosition) ==
  LET box == BoundingBox(g, ty)
      center == BoxCenter(box)
      size == BoxSize(box)
      direction == getDirectionVector(cavityPosition)
      fallback == FallbackPoint(center, size, direction)
  IN  IF g.hasPosition /\ g.hasNormal
        THEN LET best == BestSampledIndex(g, ty, center, direction)
             IN  IF best # -1
                   THEN [position |-> ToWorld(g.verts[best + 1].p, ty),
                         normal |-> g.verts[best + 1].n, found |-> TRUE]
                   ELSE fallback
        ELSE fallback

\* The CT-scan effect's copy of the locator: the same box, scan and fallback,
\* with its own direction table (any other string means the top surface).
LocateForScan(g, ty, position) ==
  LET box == BoundingBox(g, ty)
      center == BoxCenter(box)
      size == BoxSize(box)
      direction == getDirectionVector(position)
      fallback == FallbackPoint(center, size, direction)
  IN  IF g.hasPosition /\ g.hasNormal
        THEN LET best == BestSampledIndex(g, ty, center, direction)
             IN  IF best # -1
                   THEN [position |-> ToWorld(g.verts[best + 1].p, ty),
                         normal |-> g.verts[best + 1].n, found |-> TRUE]
                   ELSE fallback
        ELSE fallback

\* The annotation effect's copy: the top surface, the same scan, and no
\* fallback: without both attributes, or without a best vertex, the note gets
\* no update.
LocateForNote(g, ty) ==
  LET center == BoxCenter(BoundingBox(g, ty))
      direction == Vec(0, 1, 0)
  IN  IF g.hasPosition /\ g.hasNormal
        THEN LET best == BestSampledIndex(g, ty, center, direction)
             IN  IF best # -1
                   THEN [position |-> ToWorld(g.verts[best + 1].p, ty),
                         normal |-> g.verts[best + 1].n, found |-> TRUE]
                   ELSE [found |-> FALSE]
        ELSE [found |-> FALSE]

\* ------------------------------------------------------------- the scene
\* The meshes of the loaded OBJ model, in allMeshes order, and the geometry
\* of each: an upper and a lower first molar and a second molar whose object
\* has no faces.  Tooth 14 (jaw.012) is in the registry and not in the model.
SceneMeshes == <<"jaw.005", "jaw.020", "jaw.013">>
MeshNames == { SceneMeshes[i] : i \in DOMAIN SceneMeshes }

MeshGeometry(name) ==
  CASE name = "jaw.005" -> Geometry.molarUpper
    [] name = "jaw.020" -> Geometry.molarLower
    [] name = "jaw.013" -> Geometry.empty

\* The meshes the chewing animation moves: the lower gum and the teeth of the
\* lower quadrants.
IsLowerJaw(name) ==
  \/ name = "jaw.029"
  \/ getToothInfo(name).quadrant \in {"Lower Right", "Lower Left"}

\* Offsets of the lower jaw the animation's frames are sampled at
\* (chewAmplitude is 0.15).
ChewOffsets == {0, 15}

\* ------------------------------------------------------- the collaborators
Patients == {"P1"}
\* The dentist's user id; a patient's user id is the patient id.
DentistId == "D1"
Roles == {"dentist", "patient", Null}

\* A cavity row of a patient record.
Row(toothNumber, severity, position) ==
  [toothNumber |-> toothNumber, severity |-> severity, position |-> position]

\* The patient records the datastore may hold when the session starts.
\* removed_teeth is read with includes, filter and forEach-into-a-Set only,
\* so the array is kept as the set of its elements.
InitialRecords ==
  { [removed_teeth |-> {}, cavities |-> << >>],
    [removed_teeth |-> {}, cavities |-> << Row(3, "moderate", "occlusal") >>],
    [removed_teeth |-> {30}, cavities |-> << Row(30, "mild", "buccal") >>] }

\* An annotation row of the datastore.
DbNote(id, toothNumber, isPublic) ==
  [id |-> id, patient_id |-> "P1", dentist_id |-> DentistId,
   tooth_number |-> toothNumber, is_public |-> isPublic]

\* The annotation tables the datastore may hold when the session starts.
InitialNotes ==
  { << >>,
    << DbNote([kind |-> "db", n |-> 1], 30, FALSE) >>,
    << DbNote([kind |-> "db", n |-> 1], 3, TRUE), DbNote([kind |-> "db", n |-> 2], 30, FALSE) >> }

MaxDbCavities == 1

\* Math.random() in getSizeFromSeverity, at the two ends of its range.
Jitters == {0, 1}

VARIABLES
  model,            \* the OBJ model has been loaded and set
  visible,          \* mesh.visible of each mesh of the model
  chewingMode,      \* the chewing animation is on
  chewY,            \* mesh.position.y of the lower-jaw meshes
  deletedParts,     \* set of mesh names marked removed
  cavities,         \* array of cavity markers
  annotations,      \* array of notes
  ctScanCavities,   \* ctScanCavities.cavity, until the CT-scan effect has read it
  selectedPart,     \* name of the selected mesh, or null
  currentUser,      \* role of the user of the session, or null
  currentPatientId, \* the patient the viewer is on, or null
  panelPatient,     \* the dentist panel's currentPatient record, or null
  dbRecord,         \* datastore: the patient record of each patient
  dbNotes,          \* datastore: the annotations table
  loads,            \* loadPatientDataFromDB calls in flight
  saves,            \* createAnnotation calls in flight
  probe             \* a call of a pure function of the viewer, with its locals

chartVars == <<deletedParts, cavities, annotations, ctScanCavities, selectedPart>>
sceneVars == <<model, visible, chewingMode, chewY>>
sessionVars == <<currentUser, currentPatientId, panelPatient>>
storeVars == <<dbRecord, dbNotes>>
netVars == <<loads, saves>>
vars == <<chartVars, sceneVars, sessionVars, storeVars, netVars, probe>>

NoPatient == [null |-> TRUE]

\* Date.now() and Math.random() make an id no other object has: the i-th
\* natural number that is not among the numbers in use.
NthFree(used, i) ==
  CHOOSE n \in 1..(Cardinality(used) + i) :
    n \notin used /\ Cardinality({ m \in 1..n : m \notin used }) = i

\* The numbers of the ids of the markers, and of the notes, rows and saves.
CavityIds == { cavities[i].id.n : i \in DOMAIN cavities }
NoteIds ==
  { annotations[i].id.n : i \in DOMAIN annotations }
    \cup { dbNotes[i].id.n : i \in DOMAIN dbNotes }
    \cup { q.localId.n : q \in saves }

\* ----------------------------------------------------------- array helpers
Includes(seq, x) == \E i \in DOMAIN seq : seq[i] = x

\* The mesh's translation along Y under a jaw offset.
MeshTy(name, y) == IF IsLowerJaw(name) THEN y ELSE 0

\* The three locators on the meshes of the model, tabulated over the mesh,
\* the surface and the offset of the lower jaw.
CavitySpot ==
  [name \in MeshNames, position \in SurfaceDirections, y \in ChewOffsets |->
     LocateForCavity(MeshGeometry(name), MeshTy(name, y), position)]

ScanSpot ==
  [name \in MeshNames, position \in SurfaceDirections, y \in ChewOffsets |->
     LocateForScan(MeshGeometry(name), MeshTy(name, y), position)]

NoteSpot ==
  [name \in MeshNames, y \in ChewOffsets |->
     LocateForNote(MeshGeometry(name), MeshTy(name, y))]

\* A cascade that clears the markers of every tooth.
WithoutTooth_All(cavs, name) == << >>

\* cavities.filter(c => c.toothName !== name)
WithoutTooth(cavs, name) ==
  LET keep(c) == c.toothName # name IN SelectSeq(cavs, keep)

\* cavities.filter(c => c.toothName === name && c.cavityPosition === position)
CavitiesAt(cavs, name, position) ==
  LET at(c) == c.toothName = name /\ c.cavityPosition = position
  IN  SelectSeq(cavs, at)

\* allMeshes.find(m => meshNames.get(m.id) === name) finds a mesh with a geometry
HasMesh(name) == name \in MeshNames

\* ------------------------------------------------------------- the effects
\* The annotation effect (deps: model, annotations) and the update it hands
\* to handleUpdateAnnotationPositions: every note without a position and with
\* a tooth name whose mesh yields a best vertex gets position and normal.
\* A filter that forgets to look at the position.
NeedsPosition_Always(a) == a.toothName # Null

NeedsPosition(a) == a.position = NullVec /\ a.toothName # Null

\* An update that carries the position and drops the normal.
ResolveNote_PositionOnly(a, y) ==
  IF NeedsPosition(a) /\ HasMesh(a.toothName)
    THEN LET r == NoteSpot[a.toothName, y]
         IN  IF r.found THEN [a EXCEPT !.position = r.position] ELSE a
    ELSE a

ResolveNote(a, y) ==
  IF NeedsPosition(a) /\ HasMesh(a.toothName)
    THEN LET r == NoteSpot[a.toothName, y]
         IN  IF r.found
               THEN [a EXCEPT !.position = r.position, !.normal = r.normal]
               ELSE a
    ELSE a

AnnotationEffect(loaded, anns, y) ==
  IF ~loaded THEN anns ELSE [i \in DOMAIN anns |-> ResolveNote(anns[i], y)]

\* getSizeFromSeverity, in thousandths, with Math.random() at j.
getSizeFromSeverity(severity, j) ==
  CASE severity = "mild" -> 25 + j * 10
    [] severity = "moderate" -> 35 + j * 15
    [] severity = "severe" -> 50 + j * 20
    [] OTHER -> 30

\* The CT-scan effect (deps: model, ctScanCavities): one marker per cavity row
\* whose tooth number is on the chart and whose mesh is in the model.  The
\* effect runs once for each value of the rows after the model is there, and
\* nothing else reads them: the rows are kept until the effect has run.
ScanMarker(row, j, n, y) ==
  LET objName == findObjectNameByToothNumber(row.toothNumber)
  IN  IF objName = Null \/ ~HasMesh(objName)
        THEN [skip |-> TRUE]
        ELSE LET r == ScanSpot[objName, row.position, y]
             IN  [id |-> [kind |-> "ct_cavity", n |-> n],
                  toothName |-> objName,
                  position |-> r.position,
                  normal |-> r.normal,
                  size |-> getSizeFromSeverity(row.severity, j),
                  cavityPosition |-> row.position]

\* A scan effect that gives up at the first row it cannot place.
ScanEffect_StopAtSkip(loaded, rows, jit, used, y) ==
  IF ~loaded \/ Len(rows) = 0
    THEN << >>
    ELSE LET all == [i \in DOMAIN rows |-> ScanMarker(rows[i], jit[i], NthFree(used, i), y)]
             before(i) == \A k \in 1..i : all[k] # [skip |-> TRUE]
             n == Cardinality({ i \in DOMAIN rows : before(i) })
         IN  SubSeq(all, 1, n)

ScanEffect(loaded, rows, jit, used, y) ==
  IF ~loaded \/ Len(rows) = 0
    THEN << >>
    ELSE LET all == [i \in DOMAIN rows |-> ScanMarker(rows[i], jit[i], NthFree(used, i), y)]
             made(c) == c # [skip |-> TRUE]
         IN  SelectSeq(all, made)

\* The visibility effect (deps: deletedParts).
VisibilityEffect(deleted) == [m \in MeshNames |-> m \notin deleted]

\* ---------------------------------------------------------------- the start
TypeOK ==
  /\ model \in BOOLEAN
  /\ visible \in [MeshNames -> BOOLEAN]
  /\ chewingMode \in BOOLEAN
  /\ chewY \in ChewOffsets
  /\ deletedParts \subseteq ObjNames
  /\ selectedPart \in MeshNames \cup {Null}
  /\ currentUser \in Roles
  /\ currentPatientId \in Patients \cup {Null}

\* A call of loadPatientDataFromDB in flight: its argument, the await it is
\* at, and the handler it continues with the tooth that handler acted on.
LoadCall(patientId, from, tooth) ==
  [patientId |-> patientId, stage |-> "record", from |-> from, tooth |-> tooth]

\* No pure function is being called.
Idle == [op |-> "idle"]

\* The viewer and the datastore when the page has mounted.
InitViewer ==
  /\ model = FALSE
  /\ visible = [m \in MeshNames |-> TRUE]
  /\ chewingMode = FALSE
  /\ chewY = 0
  /\ deletedParts = {}
  /\ cavities = << >>
  /\ annotations = << >>
  /\ ctScanCavities = << >>
  /\ selectedPart = Null
  /\ currentUser \in Roles
  \* a patient's own record is loaded as soon as the user is known
  /\ currentPatientId = IF currentUser = "patient" THEN "P1" ELSE Null
  /\ loads = IF currentUser = "patient" THEN {LoadCall("P1", "mount", NullNum)} ELSE {}
  /\ panelPatient = NoPatient
  \* without a user no handler reaches the datastore
  /\ dbRecord \in IF currentUser = Null
                    THEN {[removed_teeth |-> {}, cavities |-> << >>]}
                    ELSE InitialRecords
  /\ dbNotes \in IF currentUser = Null THEN {<< >>} ELSE InitialNotes
  /\ saves = {}

Init == InitViewer /\ probe = Idle

\* ------------------------------------------------------------- the actions
\* OBJLoader's callback: every mesh is in the scene and visible (the callback
\* closes over the deletedParts of the first render, the empty set); then the
\* effects that depend on model run.
ModelLoaded ==
  /\ ~model
  /\ model' = TRUE
  /\ visible' = [m \in MeshNames |-> TRUE]
  /\ \E jit \in [DOMAIN ctScanCavities -> Jitters] :
       cavities' = cavities \o ScanEffect(TRUE, ctScanCavities, jit, CavityIds, chewY)
  /\ ctScanCavities' = << >>
  /\ annotations' = AnnotationEffect(TRUE, annotations, chewY)
  /\ UNCHANGED <<probe, chewingMode, chewY, deletedParts, selectedPart,
                 sessionVars, storeVars, netVars>>

\* handleClick on a visible mesh outside cavity and annotation mode: onSelect.
SelectPart(name) ==
  /\ model
  /\ visible[name]
  /\ selectedPart' = name
  /\ UNCHANGED <<probe, deletedParts, cavities, annotations, ctScanCavities,
                 sceneVars, sessionVars, storeVars, netVars>>

\* handleClick on empty space, or the sidebar's close button.
ClearSelection ==
  /\ model
  /\ selectedPart # Null
  /\ selectedPart' = Null
  /\ UNCHANGED <<probe, deletedParts, cavities, annotations, ctScanCavities,
                 sceneVars, sessionVars, storeVars, netVars>>

\* PATCH /api/patient-records, one function per action of the route.
add_removed_tooth(record, toothNumber) ==
  IF toothNumber \in record.removed_teeth
    THEN record
    ELSE [record EXCEPT !.removed_teeth = @ \cup {toothNumber}]

remove_removed_tooth(record, toothNumber) ==
  [record EXCEPT !.removed_teeth = { t \in @ : t # toothNumber }]

add_cavity(record, row) == [record EXCEPT !.cavities = Append(@, row)]

remove_cavity(record, toothNumber) ==
  LET keep(c) == c.toothNumber # toothNumber
  IN  [record EXCEPT !.cavities = SelectSeq(@, keep)]

\* handleDelete of the sidebar's Remove button.
DeleteRecord(record, name) ==
  LET info == getToothInfo(name)
      hasLocal == Len(cavities) # Len(WithoutTooth(cavities, name))
      cleared == IF hasLocal THEN remove_cavity(record, info.toothNumber) ELSE record
  IN  IF currentUser = "dentist" /\ currentPatientId # Null
         /\ ~info.isGum /\ info.toothNumber # NullNum
        THEN add_removed_tooth(cleared, info.toothNumber)
        ELSE record

handleDelete(name) ==
  /\ selectedPart = name
  /\ dbRecord' = DeleteRecord(dbRecord, name)
  /\ deletedParts' = deletedParts \cup {name}
  /\ cavities' = WithoutTooth(cavities, name)
  /\ selectedPart' = Null
  /\ visible' = VisibilityEffect(deletedParts')
  /\ chewY' = 0
  /\ UNCHANGED <<probe, annotations, ctScanCavities, model, chewingMode,
                 sessionVars, dbNotes, netVars>>

\* The size of the marker placeCavityOnTooth makes, in thousandths:
\* 0.035 + existingCavityCount * 0.015.
StackedSize_Flat(existingCavityCount) == 35

StackedSize(existingCavityCount) == 35 + existingCavityCount * 15

\* placeCavityOnTooth: the marker it hands to onAddCavity.
PlacedMarker(toothName, cavityPosition, existingCavityCount, n, y) ==
  LET r == CavitySpot[toothName, cavityPosition, y]
  IN  [id |-> [kind |-> "cavity", n |-> n],
       toothName |-> toothName,
       position |-> r.position,
       normal |-> r.normal,
       size |-> StackedSize(existingCavityCount),
       cavityPosition |-> cavityPosition]

\* The surfaces the cavity menu is driven with.
MenuSurfaces == {"occlusal", "buccal"}

\* handleCavityPositionSelect: a click on a visible tooth in cavity mode, then
\* a surface of the menu; the marker is placed and, for a dentist with a
\* patient, a moderate cavity row is added to the record.
handleCavityPositionSelect(name, position) ==
  /\ model
  /\ visible[name]
  /\ ~isGumObject(name)
  /\ HasMesh(name)
  /\ Len(cavities) < MaxCavities
  /\ LET existing == Len(CavitiesAt(cavities, name, position))
     IN  cavities' = Append(cavities, PlacedMarker(name, position, existing, NthFree(CavityIds, 1), chewY))
  /\ IF currentPatientId # Null /\ currentUser = "dentist"
       THEN /\ Len(dbRecord.cavities) < MaxDbCavities
            /\ dbRecord' = add_cavity(dbRecord, Row(getToothInfo(name).toothNumber, "moderate", position))
       ELSE dbRecord' = dbRecord
  /\ chewY' = 0
  /\ UNCHANGED <<probe, deletedParts, annotations, ctScanCavities, selectedPart, model, visible,
                 chewingMode, sessionVars, dbNotes, netVars>>

\* handleRemoveCavity, from the sidebar's list of the selected tooth's markers.
handleRemoveCavity(i) ==
  /\ i \in DOMAIN cavities
  /\ selectedPart = cavities[i].toothName
  /\ LET keep(c) == c.id # cavities[i].id IN cavities' = SelectSeq(cavities, keep)
  /\ chewY' = 0
  /\ UNCHANGED <<probe, deletedParts, annotations, ctScanCavities, selectedPart, model, visible,
                 chewingMode, sessionVars, storeVars, netVars>>

\* handleRestoreAll: for a dentist with a patient every deleted tooth leaves
\* the record's removed_teeth; then the local set is cleared.
RECURSIVE RestoreRecord(_, _)
RestoreRecord(record, names) ==
  IF names = {}
    THEN record
    ELSE LET name == CHOOSE x \in names : TRUE
             info == getToothInfo(name)
             next == IF ~info.isGum /\ info.toothNumber # NullNum
                       THEN remove_removed_tooth(record, info.toothNumber)
                       ELSE record
         IN  RestoreRecord(next, names \ {name})

handleRestoreAll ==
  /\ deletedParts # {}
  /\ dbRecord' = IF currentPatientId # Null /\ currentUser = "dentist"
                   THEN RestoreRecord(dbRecord, deletedParts)
                   ELSE dbRecord
  /\ deletedParts' = {}
  /\ visible' = VisibilityEffect(deletedParts')
  /\ UNCHANGED <<probe, cavities, annotations, ctScanCavities, selectedPart, model, chewingMode,
                 chewY, sessionVars, dbNotes, netVars>>

\* ------------------------------------------------------------ patient loads
\* The dentist panel's currentPatient, as far as its buttons read it.
PanelRecord(record) == [patient_id |-> "P1", removed_teeth |-> record.removed_teeth]

\* handlePatientLoad: the viewer moves to the record's patient and starts
\* loadPatientDataFromDB.
PatientLoadStarts(from, tooth) ==
  /\ Cardinality(loads) < MaxInflight
  /\ currentPatientId' = "P1"
  /\ loads' = loads \cup {LoadCall("P1", from, tooth)}

\* The panel's loadPatientData.
loadPatientData ==
  /\ currentUser = "dentist"
  /\ panelPatient' = PanelRecord(dbRecord)
  /\ PatientLoadStarts("loadPatientData", NullNum)
  /\ UNCHANGED <<probe, chartVars, sceneVars, currentUser, storeVars, saves>>

\* selectedTooth, the number the panel's tooth buttons act on.
SelectedTooth == IF selectedPart = Null THEN NullNum ELSE getToothInfo(selectedPart).toothNumber

\* The panel's handleRemoveTooth (the "Mark as Removed" button).
handleRemoveTooth ==
  /\ currentUser = "dentist"
  /\ panelPatient # NoPatient
  /\ SelectedTooth # NullNum
  /\ SelectedTooth \notin panelPatient.removed_teeth
  /\ dbRecord' = add_removed_tooth(dbRecord, SelectedTooth)
  /\ panelPatient' = PanelRecord(dbRecord')
  /\ PatientLoadStarts("handleRemoveTooth", SelectedTooth)
  /\ UNCHANGED <<probe, chartVars, sceneVars, currentUser, dbNotes, saves>>

\* The panel's handleRestoreTooth (the "Restore Tooth" button).
handleRestoreTooth ==
  /\ currentUser = "dentist"
  /\ panelPatient # NoPatient
  /\ SelectedTooth # NullNum
  /\ SelectedTooth \in panelPatient.removed_teeth
  /\ dbRecord' = remove_removed_tooth(dbRecord, SelectedTooth)
  /\ panelPatient' = PanelRecord(dbRecord')
  /\ PatientLoadStarts("handleRestoreTooth", SelectedTooth)
  /\ UNCHANGED <<probe, chartVars, sceneVars, currentUser, dbNotes, saves>>

\* record.removed_teeth as mesh names.
RemovedNames(removed) ==
  { findObjectNameByToothNumber(t) : t \in removed } \ {Null}

\* A second patient, whose record no handler of the session writes.
SecondPatient == "P2"
SecondRecord == [removed_teeth |-> {3}, cavities |-> << Row(30, "severe", "lingual") >>]

\* getPatientRecord: the record of the patient asked for.
RecordOf(patientId) == IF patientId = SecondPatient THEN SecondRecord ELSE dbRecord

\* loadPatientDataFromDB up to its second await: the record arrives, the scan
\* data and the deleted set are replaced, the markers are cleared; then the
\* effects on deletedParts and on ctScanCavities run.
RecordArrives(l) ==
  /\ l \in loads
  /\ l.stage = "record"
  /\ ctScanCavities' = IF model THEN << >> ELSE RecordOf(l.patientId).cavities
  /\ deletedParts' = RemovedNames(RecordOf(l.patientId).removed_teeth)
  /\ visible' = IF model THEN VisibilityEffect(deletedParts') ELSE visible
  /\ \E jit \in [DOMAIN RecordOf(l.patientId).cavities -> Jitters] :
       cavities' = ScanEffect(model, RecordOf(l.patientId).cavities, jit, CavityIds, chewY)
  /\ chewY' = 0
  /\ loads' = (loads \ {l}) \cup {[l EXCEPT !.stage = "annotations"]}
  /\ UNCHANGED <<probe, annotations, selectedPart, model, chewingMode, sessionVars, storeVars, saves>>

\* GET /api/annotations: a dentist gets the notes they wrote for the patient,
\* anyone else the public notes of their own record.
VisibleRows(role, patientId) ==
  LET mine(r) == IF role = "dentist"
                   THEN r.dentist_id = DentistId /\ r.patient_id = patientId
                   ELSE r.patient_id = patientId /\ r.is_public
  IN  SelectSeq(dbNotes, mine)

\* The conversion of an API annotation to a note of the viewer.
ConvertedNote(r) ==
  LET isGeneralNote == r.tooth_number = 0
  IN  [id |-> r.id,
       toothName |-> IF isGeneralNote THEN Null ELSE findObjectNameByToothNumber(r.tooth_number),
       toothNumber |-> IF isGeneralNote THEN NullNum ELSE r.tooth_number,
       position |-> NullVec,
       normal |-> NullVec,
       isPublic |-> r.is_public]

\* A conversion of every row of the table, whoever asks.
ConvertedNotes_Unfiltered(role, patientId) ==
  [i \in DOMAIN dbNotes |-> ConvertedNote(dbNotes[i])]

ConvertedNotes(role, patientId) ==
  LET rows == VisibleRows(role, patientId)
      all == [i \in DOMAIN rows |-> ConvertedNote(rows[i])]
      shown(a) == role # "patient" \/ a.isPublic
  IN  SelectSeq(all, shown)

\* loadPatientDataFromDB after its second await: the notes arrive without
\* positions and replace the viewer's; then the annotation effect runs.
AnnotationsArrive(l) ==
  /\ l \in loads
  /\ l.stage = "annotations"
  /\ annotations' = AnnotationEffect(model, ConvertedNotes(currentUser, l.patientId), chewY)
  /\ loads' = loads \ {l}
  /\ UNCHANGED <<probe, deletedParts, cavities, ctScanCavities, selectedPart, sceneVars,
                 sessionVars, storeVars, saves>>

\* -------------------------------------------------------------------- notes
\* A new note whose tooth number is 0 when no tooth is given.
NewNote_NumberZero(name, isPublic, n) ==
  [id |-> [kind |-> "annotation", n |-> n],
   toothName |-> name,
   toothNumber |-> IF name = Null THEN 0 ELSE getToothInfo(name).toothNumber,
   position |-> NullVec,
   normal |-> NullVec,
   isPublic |-> isPublic]

\* The note handleAnnotationSubmit makes: toothInfo of the clicked tooth, or
\* null for a general note.
NewNote(name, isPublic, n) ==
  [id |-> [kind |-> "annotation", n |-> n],
   toothName |-> name,
   toothNumber |-> IF name = Null THEN NullNum ELSE getToothInfo(name).toothNumber,
   position |-> NullVec,
   normal |-> NullVec,
   isPublic |-> isPublic]

\* handleAnnotationSubmit up to its await: the local note is appended and the
\* annotation effect runs; with a patient and a user the save goes out.
handleAnnotationSubmit(name, isPublic) ==
  /\ model
  /\ name # Null => visible[name]
  /\ Len(annotations) < MaxNotes
  /\ Len(dbNotes) < MaxNotes
  /\ Cardinality(saves) < MaxInflight
  /\ annotations' = AnnotationEffect(model, Append(annotations, NewNote(name, isPublic, NthFree(NoteIds, 1))), chewY)
  /\ saves' = IF currentPatientId # Null /\ currentUser # Null
                THEN saves \cup {[localId |-> [kind |-> "annotation", n |-> NthFree(NoteIds, 1)],
                                  patientId |-> currentPatientId,
                                  toothNumber |-> IF name = Null THEN 0 ELSE getToothInfo(name).toothNumber,
                                  isPublic |-> isPublic]}
                ELSE saves
  /\ UNCHANGED <<probe, deletedParts, cavities, ctScanCavities, selectedPart, sceneVars,
                 sessionVars, storeVars, loads>>

\* POST /api/annotations accepts the note of a dentist with a tooth number.
PostAccepted(role, toothNumber) == role = "dentist" /\ toothNumber # 0

\* handleAnnotationSubmit after its await: the response's id replaces the
\* local one; a refused save leaves the local note as it is.
AnnotationSaved(q) ==
  /\ q \in saves
  /\ saves' = saves \ {q}
  /\ IF PostAccepted(currentUser, q.toothNumber)
       THEN /\ dbNotes' = Append(dbNotes, DbNote([kind |-> "db", n |-> NthFree(NoteIds, 1)], q.toothNumber, q.isPublic))
            /\ annotations' = AnnotationEffect(model,
                 [i \in DOMAIN annotations |->
                    IF annotations[i].id = q.localId
                      THEN [annotations[i] EXCEPT !.id = [kind |-> "db", n |-> NthFree(NoteIds, 1)]]
                      ELSE annotations[i]], chewY)
       ELSE UNCHANGED <<dbNotes, annotations>>
  /\ UNCHANGED <<probe, deletedParts, cavities, ctScanCavities, selectedPart, sceneVars,
                 sessionVars, dbRecord, loads>>

\* handleRemoveAnnotation, from the sidebar: the note leaves the viewer, and
\* the datastore when its id is a datastore id and the user is a dentist.
handleRemoveAnnotation(i) ==
  /\ i \in DOMAIN annotations
  /\ selectedPart # Null
  /\ annotations[i].toothName \in {selectedPart, Null}
  /\ LET id == annotations[i].id
         keep(a) == a.id # id
         keepRow(r) == r.id # id
     IN  /\ annotations' = AnnotationEffect(model, SelectSeq(annotations, keep), chewY)
         /\ dbNotes' = IF id.kind # "annotation" /\ currentUser = "dentist"
                         THEN SelectSeq(dbNotes, keepRow)
                         ELSE dbNotes
  /\ UNCHANGED <<probe, deletedParts, cavities, ctScanCavities, selectedPart, sceneVars,
                 sessionVars, dbRecord, netVars>>

\* ------------------------------------------------------------------ chewing
\* The chewing toggle; turning it off (the effect's cleanup) puts the lower
\* jaw back.
ToggleChewing ==
  /\ chewingMode' = ~chewingMode
  /\ chewY' = 0
  /\ UNCHANGED <<probe, chartVars, model, visible, sessionVars, storeVars, netVars>>

\* One frame of the animation: the lower jaw is at an offset of its cycle.
ChewFrame(y) ==
  /\ model
  /\ chewingMode
  /\ chewY' = y
  /\ chewY' # chewY
  /\ UNCHANGED <<probe, chartVars, model, visible, chewingMode, sessionVars, storeVars,
                 netVars>>

Next ==
  \/ ModelLoaded
  \/ \E name \in MeshNames : SelectPart(name)
  \/ ClearSelection
  \/ \E name \in MeshNames : handleDelete(name)
  \/ \E name \in MeshNames, position \in MenuSurfaces : handleCavityPositionSelect(name, position)
  \/ \E i \in 1..MaxCavities : handleRemoveCavity(i)
  \/ handleRestoreAll
  \/ loadPatientData
  \/ handleRemoveTooth
  \/ handleRestoreTooth
  \/ \E l \in loads : RecordArrives(l)
  \/ \E l \in loads : AnnotationsArrive(l)
  \/ \E name \in MeshNames \cup {Null}, isPublic \in BOOLEAN : handleAnnotationSubmit(name, isPublic)
  \/ \E q \in saves : AnnotationSaved(q)
  \/ \E i \in 1..MaxNotes : handleRemoveAnnotation(i)
  \/ ToggleChewing
  \/ \E y \in ChewOffsets : ChewFrame(y)

Spec == Init /\ [][Next]_vars

\* The teeth the chart's handlers are driven with.
ChartTeeth == {"jaw.005", "jaw.020"}

\* The chart without the notes' handlers and without the animation.
NextChart ==
  \/ ModelLoaded
  \/ \E name \in ChartTeeth : SelectPart(name)
  \/ ClearSelection
  \/ \E name \in ChartTeeth : handleDelete(name)
  \/ \E name \in ChartTeeth, position \in MenuSurfaces : handleCavityPositionSelect(name, position)
  \/ \E i \in 1..MaxCavities : handleRemoveCavity(i)
  \/ handleRestoreAll
  \/ loadPatientData
  \/ handleRemoveTooth
  \/ handleRestoreTooth
  \/ \E l \in loads : RecordArrives(l)
  \/ \E l \in loads : AnnotationsArrive(l)

\* The sessions whose datastore, when a user can reach it, holds a note.
InitChart == Init /\ (currentUser # Null => dbNotes # << >>)

SpecChart == InitChart /\ [][NextChart]_vars

\* The sessions on a record that lists no removed tooth: every removal is
\* one a handler of the session has made.
InitIntact == InitChart /\ dbRecord.removed_teeth = {}

SpecIntact == InitIntact /\ [][NextChart]_vars

\* The notes, the loads that replace them and the animation that moves the
\* lower jaw under them, without the cavity handlers.
NextNotes ==
  \/ ModelLoaded
  \/ \E name \in MeshNames : SelectPart(name)
  \/ ClearSelection
  \/ loadPatientData
  \/ \E l \in loads : RecordArrives(l)
  \/ \E l \in loads : AnnotationsArrive(l)
  \/ \E name \in MeshNames \cup {Null}, isPublic \in BOOLEAN : handleAnnotationSubmit(name, isPublic)
  \/ \E q \in saves : AnnotationSaved(q)
  \/ \E i \in 1..MaxNotes : handleRemoveAnnotation(i)
  \/ ToggleChewing
  \/ \E y \in ChewOffsets : ChewFrame(y)

\* The sessions on a record without cavity rows.
InitNotes == Init /\ dbRecord.cavities = << >>

SpecNotes == InitNotes /\ [][NextNotes]_vars

\* ------------------------------------------------------------------ claims
NoMarkerOn(cavs, name) == \A i \in DOMAIN cavs : cavs[i].toothName # name

\* Every note on the tooth before the step is a note after it.
NotesOnToothKept(name) ==
  \A i \in DOMAIN annotations :
    annotations[i].toothName = name =>
      \E j \in DOMAIN annotations' : annotations'[j].id = annotations[i].id

\* The reload the panel's "Mark as Removed" of the tooth started has finished.
PanelRemovalCompletes(name) ==
  \E l \in loads :
    /\ l.from = "handleRemoveTooth"
    /\ findObjectNameByToothNumber(l.tooth) = name
    /\ AnnotationsArrive(l)

\* C1: when a tooth has been marked removed, by the sidebar's Remove or by the
\* panel's "Mark as Removed" and the reload it starts, no cavity marker of
\* that tooth is on the chart and every note of that tooth is still there.
C1_CascadeDelete ==
  [][\A name \in ChartTeeth :
       (handleDelete(name) \/ PanelRemovalCompletes(name)) =>
         (NoMarkerOn(cavities', name) /\ NotesOnToothKept(name))]_vars

\* The markers at a (tooth, surface) pair are a stacked run: the i-th of them,
\* counting from 0, has size 0.035 + 0.015 * i.
IsStackedRun(run) == \A i \in DOMAIN run : run[i].size = 35 + 15 * (i - 1)

\* C2: a placement at a (tooth, surface) pair whose markers are a stacked run
\* (none, to start with) leaves a stacked run one longer, so N placements in
\* a row without a removal make the sizes 0.035, 0.050, 0.065, ...
C2_Stacking ==
  [][\A name \in ChartTeeth, position \in MenuSurfaces :
       (handleCavityPositionSelect(name, position)
          /\ IsStackedRun(CavitiesAt(cavities, name, position)))
       => /\ IsStackedRun(CavitiesAt(cavities', name, position))
          /\ Len(CavitiesAt(cavities', name, position))
               = Len(CavitiesAt(cavities, name, position)) + 1]_vars

\* Three placements in a row at (jaw.005, occlusal) have happened.
C2_Witness ==
  LET run == CavitiesAt(cavities, "jaw.005", "occlusal")
  IN  /\ Len(run) = 3
      /\ \A i \in 1..3 : run[i].id.kind = "cavity"
      /\ <<run[1].size, run[2].size, run[3].size>> = <<35, 50, 65>>

\* ------------------------------------------------- the registry, called
\* The teeth of the table.
ToothObjects == { o \in ObjNames : ~isGumObject(o) }

NotDescribed == [pending |-> TRUE]

\* A tooth is described and the description is looked up again, by name and
\* quadrant and by number.
InitRegistry ==
  /\ InitViewer
  /\ currentUser = Null
  /\ probe \in { [op |-> "registry", meshId |-> o, info |-> NotDescribed,
                  byName |-> "pending", byNumber |-> "pending"] : o \in ToothObjects }

RegDescribe ==
  /\ probe.op = "registry"
  /\ probe.info = NotDescribed
  /\ probe' = [probe EXCEPT !.info = getToothInfo(probe.meshId)]
  /\ UNCHANGED <<chartVars, sceneVars, sessionVars, storeVars, netVars>>

RegResolve ==
  /\ probe.op = "registry"
  /\ probe.info # NotDescribed
  /\ probe.byName = "pending"
  /\ probe' = [probe EXCEPT !.byName = findObjectName(probe.info.displayName, probe.info.quadrant)]
  /\ UNCHANGED <<chartVars, sceneVars, sessionVars, storeVars, netVars>>

RegResolveByNumber ==
  /\ probe.op = "registry"
  /\ probe.info # NotDescribed
  /\ probe.byNumber = "pending"
  /\ probe' = [probe EXCEPT !.byNumber = findObjectNameByToothNumber(probe.info.toothNumber)]
  /\ UNCHANGED <<chartVars, sceneVars, sessionVars, storeVars, netVars>>

NextRegistry == RegDescribe \/ RegResolve \/ RegResolveByNumber

SpecRegistry == InitRegistry /\ [][NextRegistry]_vars

\* C3: for every tooth of the table, the reverse lookup of its described name
\* and quadrant, and the lookup of its described number, give the tooth back.
C3_RegistryBijection ==
  probe.op = "registry" =>
    /\ probe.byName # "pending" => probe.byName = probe.meshId
    /\ probe.byNumber # "pending" => probe.byNumber = probe.meshId

\* Both lookups of the upper left first molar, which shares its name with the
\* three other first molars, have answered.
C3_Witness ==
  /\ probe.op = "registry"
  /\ probe.meshId = "jaw.012"
  /\ probe.byName = "jaw.012"
  /\ probe.byNumber = "jaw.012"

\* --------------------------------------------------- the locator, called
\* let bestScore = -Infinity: below every score.
NegInfinity == -1000000000

\* A start of the scan that keeps the best score of the call before.
ScanStart_KeepScore(locals) == [locals EXCEPT !.i = 0, !.bestIdx = -1]

\* The locals of the sampling loop as a call sets them up: no best vertex,
\* the best score at -Infinity, the loop index at 0.
ScanStart(locals) ==
  [locals EXCEPT !.i = 0, !.bestScore = NegInfinity, !.bestIdx = -1]

\* The locator is called twice in a row on one geometry, one offset of the
\* mesh and one surface: by placeCavityOnTooth ("cavity") or by the CT-scan
\* effect ("scan").
InitLocator ==
  /\ InitViewer
  /\ currentUser = Null
  /\ probe \in { ScanStart([op |-> "locate", which |-> w, g |-> g, surface |-> d, ty |-> y,
                            pc |-> "first", i |-> 0, bestScore |-> 0, bestIdx |-> 0,
                            out1 |-> NullVec, out2 |-> NullVec]) :
                   w \in {"cavity", "scan"}, g \in GeometryIds,
                   d \in SurfaceDirections, y \in ChewOffsets }

ProbeGeometry == Geometry[probe.g]
ProbeCenter == BoxCenter(BoundingBox(ProbeGeometry, probe.ty))
ProbeSize == BoxSize(BoundingBox(ProbeGeometry, probe.ty))
ProbeDirection == getDirectionVector(probe.surface)

\* The loop runs while both attributes are there and i < count.
InLoop ==
  /\ ProbeGeometry.hasPosition /\ ProbeGeometry.hasNormal
  /\ probe.i < VertexCount(ProbeGeometry)

\* A comparison that also lets an equal score replace the best one.
Better_OrEqual(totalScore, bestScore) == totalScore >= bestScore

\* if (totalScore > bestScore)
Better(totalScore, bestScore) == totalScore > bestScore

\* One pass through the body of the sampling loop.
LocStep ==
  /\ probe.op = "locate"
  /\ probe.pc \in {"first", "second"}
  /\ InLoop
  /\ LET totalScore == TotalScore(ProbeGeometry.verts[probe.i + 1], probe.ty,
                                  ProbeCenter, ProbeDirection)
         better == Better(totalScore, probe.bestScore)
     IN  probe' = [probe EXCEPT
                     !.i = @ + SampleStep(VertexCount(ProbeGeometry)),
                     !.bestScore = IF better THEN totalScore ELSE @,
                     !.bestIdx = IF better THEN probe.i ELSE @]
  /\ UNCHANGED <<chartVars, sceneVars, sessionVars, storeVars, netVars>>

\* After the loop: the best vertex, else the fallback; a second call follows
\* the first.
LocReturn ==
  /\ probe.op = "locate"
  /\ probe.pc \in {"first", "second"}
  /\ ~InLoop
  /\ LET out == IF ProbeGeometry.hasPosition /\ ProbeGeometry.hasNormal /\ probe.bestIdx # -1
                  THEN [position |-> ToWorld(ProbeGeometry.verts[probe.bestIdx + 1].p, probe.ty),
                        normal |-> ProbeGeometry.verts[probe.bestIdx + 1].n,
                        found |-> TRUE]
                  ELSE FallbackPoint(ProbeCenter, ProbeSize, ProbeDirection)
     IN  probe' = IF probe.pc = "first"
                    THEN ScanStart([probe EXCEPT !.out1 = out, !.pc = "second"])
                    ELSE [probe EXCEPT !.out2 = out, !.pc = "done"]
  /\ UNCHANGED <<chartVars, sceneVars, sessionVars, storeVars, netVars>>

NextLocator == LocStep \/ LocReturn

SpecLocator == InitLocator /\ [][NextLocator]_vars

\* The loop ends on what the tabulated locators compute.
LocatorLoopAgrees ==
  (probe.op = "locate" /\ probe.pc # "first") =>
    probe.out1 = IF probe.which = "cavity"
                   THEN LocateForCavity(ProbeGeometry, probe.ty, probe.surface)
                   ELSE LocateForScan(ProbeGeometry, probe.ty, probe.surface)

\* A mesh without vertices, or without one of the two attributes.
Degenerate(g) == VertexCount(g) = 0 \/ ~g.hasPosition \/ ~g.hasNormal

\* C8: on a mesh with no vertex or without position or normal attribute, a
\* cavity placed by hand or from scan data lies at the centre of the bounding
\* box plus 0.4 times the largest box dimension along the unit vector D of the
\* surface, and its normal is D.
C8_LocatorFallback ==
  (probe.op = "locate" /\ probe.pc # "first" /\ Degenerate(ProbeGeometry)) =>
    /\ VScale(VSub(probe.out1.position, ProbeCenter), 10)
         = VScale(ProbeDirection, 4 * MaxDim(ProbeSize))
    /\ probe.out1.normal = ProbeDirection

\* The scan effect has located a cavity on a mesh that has vertices and no
\* normals, away from the centre of its box.
C8_Witness ==
  /\ probe.op = "locate"
  /\ probe.which = "scan"
  /\ probe.g = "noNormals"
  /\ probe.surface = "buccal"
  /\ probe.pc # "first"
  /\ probe.out1.position = VAdd(ProbeCenter, Vec(16, 0, 0))
  /\ probe.out1.normal = Vec(1, 0, 0)

Nearby(p, q) == VDot(VSub(p, q), VSub(p, q)) < 50 * 50

\* The loop of calculateLabelOffset over allAnnotations from index k on:
\* every other positioned note within 0.5 raises the offset by 0.4 and moves
\* it 0.2 to the right on an even count, to the left on an odd one.
RECURSIVE LabelScan(_, _, _, _, _)
LabelScan(a, all, k, overlapCount, additionalOffset) ==
  IF k > Len(all)
    THEN additionalOffset
    ELSE LET other == all[k]
         IN  IF other.id = a.id \/ other.position = NullVec
                  \/ ~Nearby(a.position, other.position)
               THEN LabelScan(a, all, k + 1, overlapCount, additionalOffset)
               ELSE LabelScan(a, all, k + 1, overlapCount + 1,
                      VAdd(additionalOffset,
                           Vec(20 * (IF (overlapCount + 1) % 2 = 0 THEN 1 ELSE -1), 40, 0)))

\* An offset that never stacks.
calculateLabelOffset_NoStack(a, all) == Vec(0, 150, 0)

\* An offset that counts only the neighbours listed before the note.
calculateLabelOffset_ByRank(a, all) ==
  LET me == CHOOSE k \in DOMAIN all : all[k].id = a.id
  IN  VAdd(Vec(0, 150, 0), LabelScan(a, SubSeq(all, 1, me), 1, 0, Vec(0, 0, 0)))

\* calculateLabelOffset: the minimum offset (0, 1.5, 0) plus the stacking.
calculateLabelOffset(a, all) ==
  VAdd(Vec(0, 150, 0), LabelScan(a, all, 1, 0, Vec(0, 0, 0)))

\* labelPosition of a positioned note.
LabelPosition(a, all) == VAdd(a.position, calculateLabelOffset(a, all))

\* --------------------------------------------------- claims on the chart
\* A restore of the tooth has been carried out: restore-all in the viewer, or
\* the record of the reload the panel's "Restore Tooth" started has arrived.
RestoreCompletes(name) ==
  \/ name \in deletedParts /\ handleRestoreAll
  \/ \E l \in loads :
       /\ l.from = "handleRestoreTooth"
       /\ findObjectNameByToothNumber(l.tooth) = name
       /\ l.tooth \notin dbRecord.removed_teeth
       /\ RecordArrives(l)

\* C4: a restored tooth is no longer in the deleted set, its mesh is visible
\* again, and the cavity markers the removal took away are not back on it.
C4_RestoreKeepsMarkersGone ==
  [][\A name \in ChartTeeth :
       RestoreCompletes(name) =>
         /\ name \notin deletedParts'
         /\ visible'[name]
         /\ NoMarkerOn(cavities', name)]_vars

\* --------------------------------------------------- claims on the notes
\* position and normal are both null or both set.
BothOrNeither(a) == (a.position = NullVec) = (a.normal = NullVec)

\* Note j after the step is note i before it: the same id, or the id the
\* save of note i has just put in its place.
SameNote(i, j) ==
  \/ annotations'[j].id = annotations[i].id
  \/ /\ i = j
     /\ \E q \in saves : q.localId = annotations[i].id /\ AnnotationSaved(q)

\* Every note that has a position keeps position and normal over the step.
PositionsKept ==
  \A i \in DOMAIN annotations, j \in DOMAIN annotations' :
    (SameNote(i, j) /\ annotations[i].position # NullVec) =>
      /\ annotations'[j].position = annotations[i].position
      /\ annotations'[j].normal = annotations[i].normal

\* C5, as claimed: position and normal of a note are both null or both set,
\* and once set they are never reset or overwritten, across the id replacement
\* of a save and across patient reloads.
C5_PositionSetOnce ==
  /\ [](\A i \in DOMAIN annotations : BothOrNeither(annotations[i]))
  /\ [][PositionsKept]_vars

\* C5, as the code has it: position and normal of a note are both null or
\* both set, and once set they stay as they are over every step but the
\* arrival of a patient load's notes, which brings every note back without
\* a position; the id replacement of a save keeps them.
C5_PositionSetOnceUntilReload ==
  /\ [](\A i \in DOMAIN annotations : BothOrNeither(annotations[i]))
  /\ [][(\E l \in loads : AnnotationsArrive(l)) \/ PositionsKept]_vars

\* A saved note of the lower first molar, resolved while the jaw was down,
\* has its datastore id and its position, and the jaw is back at rest.
C5_Witness ==
  /\ chewY = 0
  /\ saves = {}
  /\ \E i \in DOMAIN annotations :
       /\ annotations[i].id.kind = "db"
       /\ annotations[i].toothName = "jaw.020"
       /\ annotations[i].position = NoteSpot["jaw.020", 15].position
       /\ annotations[i].normal # NullVec

\* C6: a second run of the annotation effect on the same notes and meshes
\* changes nothing: no note gets another position or normal.
C6_ResolutionIdempotent ==
  AnnotationEffect(model, annotations, chewY) = annotations

\* The effect has resolved a note of the lower first molar with the jaw at
\* rest, and the jaw has moved since.
C6_Witness ==
  /\ model
  /\ chewY = 15
  /\ \E i \in DOMAIN annotations :
       /\ annotations[i].toothName = "jaw.020"
       /\ annotations[i].position = NoteSpot["jaw.020", 0].position

\* C7: with the model loaded, every note of a tooth whose mesh is in the
\* model has position and normal, also on a mesh without vertices.
C7_EveryNoteResolved ==
  model =>
    \A i \in DOMAIN annotations :
      (annotations[i].toothName # Null /\ HasMesh(annotations[i].toothName)) =>
        (annotations[i].position # NullVec /\ annotations[i].normal # NullVec)

\* C10: two distinct positioned notes whose anchors are within 0.5 of one
\* another, the notes of one tooth among them, have different label positions.
C10_LabelDeclutter ==
  \A i, j \in DOMAIN annotations :
    (/\ i # j
     /\ annotations[i].position # NullVec
     /\ annotations[j].position # NullVec
     /\ Nearby(annotations[i].position, annotations[j].position))
    => LabelPosition(annotations[i], annotations) # LabelPosition(annotations[j], annotations)

\* ------------------------------------------------------ the chewing glow
\* baseIntensity of getChewingIntensity before the cavity bonus, in
\* hundredths: the if / else-if chain over the display name.
RoleBase(toothName) ==
  LET displayName == ToLower(getToothInfo(toothName).displayName)
  IN  IF StrIncludes(displayName, "first molar") THEN 75
      ELSE IF StrIncludes(displayName, "second molar") THEN 65
      ELSE IF StrIncludes(displayName, "first premolar") THEN 45
      ELSE IF StrIncludes(displayName, "second premolar") THEN 35
      ELSE IF StrIncludes(displayName, "canine") THEN 15
      ELSE IF StrIncludes(displayName, "lateral incisor") THEN 8
      ELSE IF StrIncludes(displayName, "central incisor") THEN 5
      ELSE IF toothName = "jaw.029" THEN 25
      ELSE 30

\* Math.min(baseIntensity + cavityBonus, 10), in hundredths.
IntensityCap == 1000

\* getChewingIntensity, in hundredths; cavityCount is cavityCountMap.get(name) || 0.
getChewingIntensity(toothName, cavityCount) ==
  Min2(RoleBase(toothName) + cavityCount * 20, IntensityCap)

\* A pulse that stops at the base intensity instead of 1.2 times it.
currentIntensity_NoBoost(baseIntensity, pulseTenths) ==
  LET minIntensity == baseIntensity * 50
      maxIntensity == baseIntensity * 100
  IN  minIntensity + ((maxIntensity - minIntensity) * pulseTenths) \div 10

\* currentIntensity of animate, in 1/10000: minIntensity = base * 0.5,
\* maxIntensity = base * 1.2, interpolated by pulseFactor (in tenths).
currentIntensity(baseIntensity, pulseTenths) ==
  LET minIntensity == baseIntensity * 50
      maxIntensity == baseIntensity * 120
  IN  minIntensity + ((maxIntensity - minIntensity) * pulseTenths) \div 10

\* The largest number of markers on one tooth the glow is computed for.
MaxGlowCount == 50
\* pulseFactor = |sin(...)|, a number of [0, 1], in tenths.
PulseTenths == 0..10

\* The chewing effect runs for a mesh of the table with some markers on it.
InitGlow ==
  /\ InitViewer
  /\ currentUser = Null
  /\ probe \in { [op |-> "glow", toothName |-> o, cavityCount |-> n, pc |-> "effect",
                  baseIntensity |-> 0, emissiveIntensity |-> 0, pulse |-> 0] :
                   o \in ObjNames, n \in 0..MaxGlowCount }

\* The effect body: baseIntensities.set(mesh.id, baseIntensity) and
\* material.emissiveIntensity = baseIntensity.
GlowApply ==
  /\ probe.op = "glow"
  /\ probe.pc = "effect"
  /\ LET baseIntensity == getChewingIntensity(probe.toothName, probe.cavityCount)
     IN  probe' = [probe EXCEPT !.pc = "applied", !.baseIntensity = baseIntensity,
                                !.emissiveIntensity = baseIntensity * 100]
  /\ UNCHANGED <<chartVars, sceneVars, sessionVars, storeVars, netVars>>

\* One frame of animate at pulse factor p / 10.
GlowFrame(p) ==
  /\ probe.op = "glow"
  /\ probe.pc \in {"applied", "animate"}
  /\ probe' = [probe EXCEPT !.pc = "animate", !.pulse = p,
                            !.emissiveIntensity = currentIntensity(probe.baseIntensity, p)]
  /\ UNCHANGED <<chartVars, sceneVars, sessionVars, storeVars, netVars>>

NextGlow == GlowApply \/ \E p \in PulseTenths : GlowFrame(p)

SpecGlow == InitGlow /\ [][NextGlow]_vars

C12_GeneralNoteNumberZero ==
  \A i \in DOMAIN annotations :
    annotations[i].toothName = Null =>
      /\ annotations[i].toothNumber = 0
      /\ annotations[i].position = NullVec
      /\ annotations[i].normal = NullVec

\* C12, as the code has it: a note made without a tooth has toothName null
\* and toothNumber null (0 only goes to the datastore call), and its position
\* and normal are null in every state.
C12_GeneralNoteNumberNull ==
  \A i \in DOMAIN annotations :
    annotations[i].toothName = Null =>
      /\ annotations[i].toothNumber = NullNum
      /\ annotations[i].position = NullVec
      /\ annotations[i].normal = NullVec

\* With the model loaded, a general note stands next to a note of a tooth
\* that the effect has resolved, and no save is under way.
C12_Witness ==
  /\ model
  /\ saves = {}
  /\ Len(annotations) = 2
  /\ annotations[1].toothName = Null
  /\ annotations[2].toothName = "jaw.005"
  /\ annotations[2].position # NullVec

\* ------------------------------------------------ reverse lookup, called
\* The tooth names a caller may pass: the names of the table in three
\* spellings, the gums, and bare words.
LookupNames ==
  { "Central Incisor", "CENTRAL INCISOR", "central incisor",
    "Lateral Incisor", "lateral incisor", "Canine", "CANINE", "canine",
    "First Premolar", "first premolar", "Second Premolar", "second premolar",
    "First Molar", "FIRST MOLAR", "first molar",
    "Second Molar", "SECOND MOLAR", "second molar",
    "Upper Gum", "lower gum", "molar", "premolar" }

\* The quadrants a caller may pass, one of them not a quadrant of the table.
LookupQuadrants ==
  { "Upper Right", "UPPER RIGHT", "upper right", "Upper Left", "upper left",
    "Lower Right", "lower right", "Lower Left", "LOWER LEFT", "lower left",
    "upper middle" }

InitLookup ==
  /\ InitViewer
  /\ currentUser = Null
  /\ probe \in { [op |-> "lookup", toothType |-> t, quadrant |-> q, pc |-> "call", found |-> Null] :
                   t \in LookupNames, q \in LookupQuadrants }

\* findObjectName(toothType, quadrant) returns.
RegFind ==
  /\ probe.op = "lookup"
  /\ probe.pc = "call"
  /\ probe' = [probe EXCEPT !.pc = "done", !.found = findObjectName(probe.toothType, probe.quadrant)]
  /\ UNCHANGED <<chartVars, sceneVars, sessionVars, storeVars, netVars>>

NextLookup == RegFind

SpecLookup == InitLookup /\ [][NextLookup]_vars

\* C13: the reverse lookup compares name and quadrant without regard to case
\* and returns the one tooth whose name and quadrant are the given ones; it
\* returns null when no tooth matches exactly: for a gum name, for a quadrant
\* that does not exist and for a part of a name such as "molar".
C13_ReverseLookup ==
  (probe.op = "lookup" /\ probe.pc = "done") =>
    LET exact == { o \in ToothObjects :
                     /\ ToLower(MapEntry(o).name) = ToLower(probe.toothType)
                     /\ ToLower(MapEntry(o).quadrant) = ToLower(probe.quadrant) }
    IN  /\ Cardinality(exact) <= 1
        /\ exact # {} => probe.found \in exact
        /\ exact = {} => probe.found = Null
        /\ ToLower(probe.toothType) \in {"upper gum", "lower gum", "molar", "premolar"}
             => probe.found = Null
        /\ ToLower(probe.quadrant) = "upper middle" => probe.found = Null

\* The lower left first molar has been found from an upper-case name and a
\* lower-case quadrant.
C13_Witness ==
  /\ probe.op = "lookup"
  /\ probe.pc = "done"
  /\ probe.toothType = "FIRST MOLAR"
  /\ probe.quadrant = "lower left"
  /\ probe.found = "jaw.027"

\* ------------------------------------------------------- batches of scan rows
\* The longest list of cavity rows a record holds here.
MaxBatch == 3

\* Tooth numbers of scan rows: teeth of the scene (3, 30), a tooth of the
\* table whose mesh is not in the scene (8), and numbers the table does not
\* have (1, 16, 17, 32).
BatchToothNumbers == {3, 30, 8, 1, 16, 17, 32}

BatchRows ==
  { Row(t, "mild", position) : t \in BatchToothNumbers, position \in {"occlusal", "buccal"} }

\* A patient's session on a record whose cavity rows are any batch.
InitScan ==
  /\ model = FALSE
  /\ visible = [m \in MeshNames |-> TRUE]
  /\ chewingMode = FALSE
  /\ chewY = 0
  /\ deletedParts = {}
  /\ cavities = << >>
  /\ annotations = << >>
  /\ ctScanCavities = << >>
  /\ selectedPart = Null
  /\ currentUser = "patient"
  /\ currentPatientId = "P1"
  /\ loads = {LoadCall("P1", "mount", NullNum)}
  /\ panelPatient = NoPatient
  /\ \E n \in 0..MaxBatch : \E rows \in [1..n -> BatchRows] :
       dbRecord = [removed_teeth |-> {}, cavities |-> rows]
  /\ dbNotes = << >>
  /\ saves = {}
  /\ probe = Idle

NextScan ==
  \/ ModelLoaded
  \/ \E l \in loads : RecordArrives(l)
  \/ \E l \in loads : AnnotationsArrive(l)

SpecScan == InitScan /\ [][NextScan]_vars

\* The rows of a batch whose tooth number is the number of a tooth of the
\* table that has a mesh in the scene.
Placeable(row) ==
  \E o \in ToothObjects : MapEntry(o).toothNumber = row.toothNumber /\ o \in MeshNames

\* C14: once the batch has been processed the chart holds, in input order,
\* exactly one marker for each row whose tooth number resolves to a tooth with
\* a mesh, and none for the other rows, whatever rows come before them.
C14_BatchSkipsUnresolvable ==
  (model /\ \A l \in loads : l.stage # "record") =>
    LET rows == SelectSeq(dbRecord.cavities, Placeable)
    IN  /\ Len(cavities) = Len(rows)
        /\ \A i \in DOMAIN rows :
             /\ cavities[i].id.kind = "ct_cavity"
             /\ MapEntry(cavities[i].toothName).toothNumber = rows[i].toothNumber
             /\ cavities[i].cavityPosition = rows[i].position

\* A batch of three rows, the middle one on a number the table does not
\* have, has given the markers of the first and the third row.
C14_Witness ==
  /\ model
  /\ loads = {}
  /\ Len(dbRecord.cavities) = 3
  /\ dbRecord.cavities[1].toothNumber = 30
  /\ dbRecord.cavities[2].toothNumber = 16
  /\ dbRecord.cavities[3].toothNumber = 3
  /\ Len(cavities) = 2
  /\ cavities[1].toothName = "jaw.020"
  /\ cavities[2].toothName = "jaw.005"

\* ------------------------------------------------ markers under the animation
\* Markers are placed and removed while the chewing animation runs, in a
\* session without a user.
InitChew == Init /\ currentUser = Null

NextChew ==
  \/ ModelLoaded
  \/ \E name \in ChartTeeth : SelectPart(name)
  \/ \E name \in ChartTeeth, position \in MenuSurfaces : handleCavityPositionSelect(name, position)
  \/ \E i \in 1..MaxCavities : handleRemoveCavity(i)
  \/ ToggleChewing
  \/ \E y \in ChewOffsets : ChewFrame(y)

SpecChew == InitChew /\ [][NextChew]_vars

\* C15: in every state the stored position and normal of each marker are what
\* the locator gives for its tooth and surface under the current transform of
\* the tooth's mesh, also while the animation moves the lower jaw and after it
\* has stopped.
C15_MarkersFollowMesh ==
  \A i \in DOMAIN cavities :
    LET c == cavities[i]
        now == IF c.id.kind = "cavity"
                 THEN CavitySpot[c.toothName, c.cavityPosition, chewY]
                 ELSE ScanSpot[c.toothName, c.cavityPosition, chewY]
    IN  c.position = now.position /\ c.normal = now.normal

\* ------------------------------------------------------- notes of a patient
\* C16: in a patient's session no note that came from the datastore and is
\* not public is among the notes of the viewer, after any number of loads.
C16_PatientSeesPublicOnly ==
  currentUser = "patient" =>
    \A i \in DOMAIN annotations :
      annotations[i].id.kind = "db" => annotations[i].isPublic

\* A patient's load has completed on a table with a public and a private
\* note: the public one is in the viewer.
C16_Witness ==
  /\ currentUser = "patient"
  /\ loads = {}
  /\ \E i \in DOMAIN dbNotes : ~dbNotes[i].is_public
  /\ \E i \in DOMAIN annotations :
       annotations[i].id.kind = "db" /\ annotations[i].toothName = "jaw.005"

\* ------------------------------------------------------ the sampling loop
\* The largest vertex buffer the loop is run on.
MaxVertexCount == 260

\* The loop `for (let i = 0; i < positionAttribute.count; i += step)` of the
\* three locators on a buffer of some size; visited counts the passes.
InitSampling ==
  /\ InitViewer
  /\ currentUser = Null
  /\ probe \in { [op |-> "sample", count |-> c, i |-> 0, visited |-> 0] :
                   c \in 0..MaxVertexCount }

\* One pass: the vertex at i is examined, then i += step.
SampleVertex ==
  /\ probe.op = "sample"
  /\ probe.i < probe.count
  /\ probe' = [probe EXCEPT !.i = @ + SampleStep(probe.count), !.visited = @ + 1]
  /\ UNCHANGED <<chartVars, sceneVars, sessionVars, storeVars, netVars>>

NextSampling == SampleVertex

SpecSampling == InitSampling /\ [][NextSampling]_vars

\* C17: the loop examines at most 100 vertices, at the multiples of
\* max(1, floor(count / 100)), and does not walk the whole buffer when the
\* buffer has more than 100 vertices.
C17_SamplingBudget ==
  probe.op = "sample" =>
    /\ probe.visited <= 100
    /\ probe.i = probe.visited * Max2(1, probe.count \div 100)
    /\ probe.count > 100 => probe.visited < probe.count

\* ------------------------------------------------- the locator's selection
\* C18: when the loop has sampled a vertex, the returned position and normal
\* are those of the sampled vertex with the largest combined score, and of
\* the one with the lowest index among those of largest score.
C18_LocatorSelection ==
  (probe.op = "locate" /\ probe.pc # "first" /\ ~Degenerate(ProbeGeometry)) =>
    LET I == SampleIndices(VertexCount(ProbeGeometry))
        score(i) == TotalScore(ProbeGeometry.verts[i + 1], probe.ty, ProbeCenter, ProbeDirection)
    IN  \E k \in I :
          /\ \A j \in I : score(j) <= score(k)
          /\ \A j \in I : score(j) = score(k) => k <= j
          /\ probe.out1.found
          /\ probe.out1.position = ToWorld(ProbeGeometry.verts[k + 1].p, probe.ty)
          /\ probe.out1.normal = ProbeGeometry.verts[k + 1].n

\* On the upper crown, whose four vertices all score 0 toward the mesial
\* side, the call has returned the first vertex.
C18_Witness ==
  /\ probe.op = "locate"
  /\ probe.pc # "first"
  /\ probe.g = "molarUpper"
  /\ probe.surface = "mesial"
  /\ probe.out1.found
  /\ probe.out1.position = ToWorld(Geometry.molarUpper.verts[1].p, probe.ty)

\* ------------------------------------------------ stacking under removals
\* C19: a marker newly placed at a tooth and surface is larger than every
\* placed marker that is at that tooth and surface at that moment, whatever
\* placements and removals came before.
C19_StackedSizesDistinct ==
  [][\A name \in ChartTeeth, position \in MenuSurfaces :
       handleCavityPositionSelect(name, position) =>
         \A i \in DOMAIN cavities :
           (/\ cavities[i].id.kind = "cavity"
            /\ cavities[i].toothName = name
            /\ cavities[i].cavityPosition = position)
           => cavities'[Len(cavities')].size > cavities[i].size]_vars

\* ------------------------------------------------ surface directions, called
\* placeCavityOnTooth asks for the direction of a surface of a tooth of the
\* table: the tooth is not an argument of getDirectionVector.
InitDirection ==
  /\ InitViewer
  /\ currentUser = Null
  /\ probe \in { [op |-> "direction", toothName |-> o, cavityPosition |-> d,
                  pc |-> "call", direction |-> NullVec] :
                   o \in ToothObjects, d \in SurfaceDirections }

\* const direction = getDirectionVector(cavityPosition).normalize()
DirectionCall ==
  /\ probe.op = "direction"
  /\ probe.pc = "call"
  /\ probe' = [probe EXCEPT !.pc = "done", !.direction = getDirectionVector(probe.cavityPosition)]
  /\ UNCHANGED <<chartVars, sceneVars, sessionVars, storeVars, netVars>>

NextDirection == DirectionCall

SpecDirection == InitDirection /\ [][NextDirection]_vars

\* The side of the jaw a tooth is on: X is negative on the right, positive on
\* the left.
OutwardX(toothName) ==
  IF getToothInfo(toothName).quadrant \in {"Upper Right", "Lower Right"} THEN -1 ELSE 1

\* C20: for every tooth of the table the buccal direction points away from
\* the midline (negative X on the right, positive X on the left) and the
\* lingual direction toward it.
C20_BuccalPointsOutward ==
  (probe.op = "direction" /\ probe.pc = "done") =>
    /\ probe.cavityPosition = "buccal"
         => probe.direction = Vec(OutwardX(probe.toothName), 0, 0)
    /\ probe.cavityPosition = "lingual"
         => probe.direction = Vec(-OutwardX(probe.toothName), 0, 0)

\* ------------------------------------------------------ the labels, laid out
\* The longest list of notes the labels are laid out for.
MaxLabelNotes == 4

\* Anchors of notes: a point, points 0.3, 0.49 and 0.5 away from it, and no
\* position yet.
LabelAnchors == { Vec(0, 0, 0), Vec(30, 0, 0), Vec(0, 49, 0), Vec(0, 0, 50), NullVec }

\* The permutations of 1..n.
Perms(n) == { f \in [1..n -> 1..n] : \A i, j \in 1..n : f[i] = f[j] => i = j }

\* AnnotationLabel is rendered for every note of a list, and again after the
\* list has been put in another order.
InitLabels ==
  /\ InitViewer
  /\ currentUser = Null
  /\ \E n \in 1..MaxLabelNotes : \E pos \in [1..n -> LabelAnchors] : \E perm \in Perms(n) :
       probe = [op |-> "labels",
                all |-> [i \in 1..n |-> [id |-> i, position |-> pos[i]]],
                perm |-> perm, pc |-> "render",
                offsets |-> << >>, offsets2 |-> << >>]

\* The labelOffset of every note of a list; "none" for a note without
\* position, whose label is not rendered.
LabelOffsets(all) ==
  [i \in DOMAIN all |->
     IF all[i].position = NullVec THEN [none |-> TRUE]
     ELSE calculateLabelOffset(all[i], all)]

\* annotations.map(annotation => <AnnotationLabel .../>)
RenderLabels ==
  /\ probe.op = "labels"
  /\ probe.pc = "render"
  /\ probe' = [probe EXCEPT !.pc = "rerender", !.offsets = LabelOffsets(probe.all)]
  /\ UNCHANGED <<chartVars, sceneVars, sessionVars, storeVars, netVars>>

\* The same notes in the order perm: entry i of offsets2 belongs to note
\* all[perm[i]].
RerenderLabels ==
  /\ probe.op = "labels"
  /\ probe.pc = "rerender"
  /\ probe' = [probe EXCEPT !.pc = "done",
                 !.offsets2 = LabelOffsets([i \in DOMAIN probe.all |-> probe.all[probe.perm[i]]])]
  /\ UNCHANGED <<chartVars, sceneVars, sessionVars, storeVars, netVars>>

NextLabels == RenderLabels \/ RerenderLabels

SpecLabels == InitLabels /\ [][NextLabels]_vars

\* The number of other positioned notes strictly within 0.5 of note i.
NeighbourCount(all, i) ==
  Cardinality({ j \in DOMAIN all :
                  /\ j # i
                  /\ all[j].position # NullVec
                  /\ Nearby(all[i].position, all[j].position) })

\* C21: the label offset of a positioned note with k other positioned notes
\* strictly within 0.5 of its anchor is (x, 1.5 + 0.4 k, 0) with x = -0.2 for
\* odd k and 0 for even k; farther notes and notes without position do not
\* count.
C21_LabelOffsetRule ==
  (probe.op = "labels" /\ probe.pc # "render") =>
    \A i \in DOMAIN probe.all :
      probe.all[i].position # NullVec =>
        LET k == NeighbourCount(probe.all, i)
        IN  probe.offsets[i] = Vec(IF k % 2 = 1 THEN -20 ELSE 0, 150 + 40 * k, 0)

\* Four notes: three within 0.5 of one another, one exactly 0.5 away from the
\* first; the first has offset (0, 2.3, 0).
C21_Witness ==
  /\ probe.op = "labels"
  /\ probe.pc # "render"
  /\ Len(probe.all) = 4
  /\ probe.all[1].position = Vec(0, 0, 0)
  /\ probe.all[2].position = Vec(30, 0, 0)
  /\ probe.all[3].position = Vec(0, 49, 0)
  /\ probe.all[4].position = Vec(0, 0, 50)
  /\ probe.offsets[1] = Vec(0, 230, 0)
  /\ probe.offsets[4] = Vec(0, 150, 0)

\* C22: every note has the same label offset whatever the order of the list
\* of notes.
C22_LayoutStable ==
  (probe.op = "labels" /\ probe.pc = "done") =>
    \A i \in DOMAIN probe.all : probe.offsets2[i] = probe.offsets[probe.perm[i]]

\* Three neighbouring notes have been laid out in the order 1, 2, 3 and in
\* the order 3, 1, 2.
C22_Witness ==
  /\ probe.op = "labels"
  /\ probe.pc = "done"
  /\ Len(probe.all) = 3
  /\ \A i \in 1..3 : probe.all[i].position = Vec(0, 0, 0)
  /\ probe.perm = <<3, 1, 2>>
  /\ probe.offsets2[1] = Vec(0, 230, 0)

\* ------------------------------------------------------ frame of removals
\* The list without its i-th element.
WithoutIndex(seq, i) ==
  [j \in 1..(Len(seq) - 1) |-> IF j < i THEN seq[j] ELSE seq[j + 1]]

\* C23: the removal of a marker takes exactly that marker away and leaves the
\* other markers, the notes and the deleted set as they are; the removal of a
\* tooth takes away only the markers of that tooth and leaves the markers of
\* every other tooth and all notes as they are.
C23_RemovalFrame ==
  [][/\ \A i \in 1..MaxCavities :
          handleRemoveCavity(i) =>
            /\ cavities' = WithoutIndex(cavities, i)
            /\ annotations' = annotations
            /\ deletedParts' = deletedParts
     /\ \A name \in ChartTeeth :
          handleDelete(name) =>
            /\ LET other(c) == c.toothName # name
               IN  cavities' = SelectSeq(cavities, other)
            /\ annotations' = annotations]_vars

\* The upper first molar has been removed with a note on it, and a marker of
\* the lower first molar is still on the chart.
C23_Witness ==
  /\ deletedParts = {"jaw.005"}
  /\ \E i \in DOMAIN cavities : cavities[i].toothName = "jaw.020"
  /\ \E i \in DOMAIN annotations : annotations[i].toothName = "jaw.005"

\* ------------------------------------------------------- removed teeth, shown
\* C24: once the model is there and the effects have run, no mesh whose name
\* is in the deleted set is visible.
C24_RemovedTeethHidden ==
  model => \A name \in MeshNames : name \in deletedParts => ~visible[name]

\* ------------------------------------------------- highlights and tool modes
\* The emissive colour and intensity (hundredths) a material can be given.
NoHighlight == [color |-> "000000", intensity |-> 0]
VoiceHighlight == [color |-> "00ffff", intensity |-> 60]
HoverHighlight == [color |-> "1e90ff", intensity |-> 30]
CavityHoverHighlight == [color |-> "ff4444", intensity |-> 30]
SelectHighlight == [color |-> "00ff00", intensity |-> 50]

\* setMeshHighlight: the mesh is looked up in allMeshes; no mesh, no change.
setMeshHighlight(emissive, meshId, highlight) ==
  IF meshId \in DOMAIN emissive THEN [emissive EXCEPT ![meshId] = highlight] ELSE emissive

\* The voice selection effect over allMeshes, which is empty until the model
\* has been loaded.
VoiceEffect(emissive, voice, selected, hovered, loaded) ==
  IF ~loaded
    THEN emissive
    ELSE [m \in DOMAIN emissive |->
            IF m \in voice THEN VoiceHighlight
            ELSE IF m # selected /\ m # hovered THEN NoHighlight
            ELSE emissive[m]]

\* 'Add Cavity' without the line that turns the other mode off.
ToggleCavity_KeepOther(cavityMode, annotationMode) ==
  [cavityMode |-> ~cavityMode, annotationMode |-> annotationMode]

\* onClick of 'Add Cavity'
ToggleCavity(cavityMode, annotationMode) ==
  [cavityMode |-> ~cavityMode,
   annotationMode |-> IF ~cavityMode THEN FALSE ELSE annotationMode]

\* onClick of 'Add Notes'
ToggleAnnotation(cavityMode, annotationMode) ==
  [cavityMode |-> IF ~annotationMode THEN FALSE ELSE cavityMode,
   annotationMode |-> ~annotationMode]

VoiceActions == {"clear", "select", "deselect"}

InitHover ==
  /\ InitViewer
  /\ currentUser = Null
  /\ probe = [op |-> "hover", cavityMode |-> FALSE, annotationMode |-> FALSE,
              voiceSelectedNames |-> {}, hoveredMeshId |-> Null,
              selectedMeshId |-> Null,
              emissive |-> [m \in MeshNames |-> NoHighlight]]

ClickAddCavity ==
  /\ probe.op = "hover"
  /\ LET t == ToggleCavity(probe.cavityMode, probe.annotationMode)
     IN  probe' = [probe EXCEPT !.cavityMode = t.cavityMode,
                                !.annotationMode = t.annotationMode]
  /\ UNCHANGED <<chartVars, sceneVars, sessionVars, storeVars, netVars>>

ClickAddNotes ==
  /\ probe.op = "hover"
  /\ LET t == ToggleAnnotation(probe.cavityMode, probe.annotationMode)
     IN  probe' = [probe EXCEPT !.cavityMode = t.cavityMode,
                                !.annotationMode = t.annotationMode]
  /\ UNCHANGED <<chartVars, sceneVars, sessionVars, storeVars, netVars>>

\* the 'Done' button is rendered only while a mode is on
ClickDone ==
  /\ probe.op = "hover"
  /\ probe.cavityMode \/ probe.annotationMode
  /\ probe' = [probe EXCEPT !.cavityMode = FALSE, !.annotationMode = FALSE]
  /\ UNCHANGED <<chartVars, sceneVars, sessionVars, storeVars, netVars>>

\* handlePointerMove with the ray hitting target (Null: empty space)
PointerMove(target) ==
  /\ probe.op = "hover"
  /\ model
  /\ target # Null => visible[target]
  /\ LET prev == probe.hoveredMeshId
         reset == IF prev # Null /\ prev # probe.selectedMeshId
                    THEN IF prev \in probe.voiceSelectedNames
                           THEN setMeshHighlight(probe.emissive, prev, VoiceHighlight)
                           ELSE setMeshHighlight(probe.emissive, prev, NoHighlight)
                    ELSE probe.emissive
         hover == IF target # Null /\ target # probe.selectedMeshId
                    THEN IF probe.cavityMode
                           THEN setMeshHighlight(reset, target, CavityHoverHighlight)
                           ELSE setMeshHighlight(reset, target, HoverHighlight)
                    ELSE reset
     IN  probe' = [probe EXCEPT !.emissive = hover, !.hoveredMeshId = target]
  /\ UNCHANGED <<chartVars, sceneVars, sessionVars, storeVars, netVars>>

\* handlePointerLeave
PointerLeave ==
  /\ probe.op = "hover"
  /\ LET prev == probe.hoveredMeshId
     IN  probe' = [probe EXCEPT
                     !.emissive = IF prev # Null /\ prev # probe.selectedMeshId
                                    THEN setMeshHighlight(probe.emissive, prev, NoHighlight)
                                    ELSE probe.emissive,
                     !.hoveredMeshId = Null]
  /\ UNCHANGED <<chartVars, sceneVars, sessionVars, storeVars, netVars>>

\* handleClick where the pointer is (focus mode off), with onSelect,
\* onClickEmpty and the voice selection effect that follows them.  In cavity
\* or annotation mode the click only opens a menu.
PointerClick ==
  /\ probe.op = "hover"
  /\ model
  /\ ~probe.cavityMode /\ ~probe.annotationMode
  /\ LET target == probe.hoveredMeshId
         deselected == IF probe.selectedMeshId # Null
                         THEN setMeshHighlight(probe.emissive, probe.selectedMeshId, NoHighlight)
                         ELSE probe.emissive
     IN  IF target # Null
           THEN LET selected == setMeshHighlight(deselected, target, SelectHighlight)
                IN  probe' = [probe EXCEPT
                                !.selectedMeshId = target,
                                !.emissive =
                                   IF target # probe.selectedMeshId
                                     THEN VoiceEffect(selected, probe.voiceSelectedNames,
                                                      target, probe.hoveredMeshId, model)
                                     ELSE selected]
           ELSE probe' = [probe EXCEPT
                            !.selectedMeshId = Null,
                            !.voiceSelectedNames = {},
                            !.emissive = VoiceEffect(deselected, {}, Null,
                                                     probe.hoveredMeshId, model)]
  /\ UNCHANGED <<chartVars, sceneVars, sessionVars, storeVars, netVars>>

\* handleVoiceCommand on one resolved tooth, with the voice selection effect
handleVoiceCommand(action, name) ==
  /\ probe.op = "hover"
  /\ LET voice == CASE action = "clear" -> {}
                    [] action = "select" -> probe.voiceSelectedNames \cup {name}
                    [] action = "deselect" -> probe.voiceSelectedNames \ {name}
     IN  probe' = [probe EXCEPT
                     !.voiceSelectedNames = voice,
                     !.emissive = VoiceEffect(probe.emissive, voice, probe.selectedMeshId,
                                              probe.hoveredMeshId, model)]
  /\ UNCHANGED <<chartVars, sceneVars, sessionVars, storeVars, netVars>>

NextHover ==
  \/ ModelLoaded
  \/ ClickDone
  \/ ClickAddCavity
  \/ ClickAddNotes
  \/ \E target \in MeshNames \cup {Null} : PointerMove(target)
  \/ PointerLeave
  \/ PointerClick
  \/ \E action \in VoiceActions, name \in MeshNames : handleVoiceCommand(action, name)

SpecHover == InitHover /\ [][NextHover]_vars

\* C25: a voice-selected tooth that is neither under the pointer nor the
\* selected mesh carries the voice highlight (cyan, 0.6), also after a hover
\* over it has ended in any way.
C25_VoiceHighlightSurvives ==
  (probe.op = "hover" /\ model) =>
    \A m \in probe.voiceSelectedNames :
      (m # probe.hoveredMeshId /\ m # probe.selectedMeshId) =>
        probe.emissive[m] = VoiceHighlight

\* C30: the two tool modes are never on together; a click that turns one on
\* leaves the other off, and 'Done' leaves both off.
C30_ModeExclusivity ==
  /\ [](probe.op = "hover" => ~(probe.cavityMode /\ probe.annotationMode))
  /\ [][/\ (ClickAddCavity /\ ~probe.cavityMode) =>
             (probe'.cavityMode /\ ~probe'.annotationMode)
        /\ (ClickAddNotes /\ ~probe.annotationMode) =>
             (probe'.annotationMode /\ ~probe'.cavityMode)
        /\ ClickDone => (~probe'.cavityMode /\ ~probe'.annotationMode)]_vars

\* Cavity mode is on, annotation mode is off and the pointer is on a tooth
\* that shows the cavity-mode hover colour.
C30_Witness ==
  /\ probe.op = "hover"
  /\ probe.cavityMode /\ ~probe.annotationMode
  /\ probe.hoveredMeshId # Null
  /\ probe.emissive[probe.hoveredMeshId] = CavityHoverHighlight

\* ------------------------------------------------------ notes, round trip
\* A completed save of a dentist's note leaves a row with the note's tooth
\* number (0 for a general note) in the datastore.
SaveStores ==
  \A q \in saves :
    (AnnotationSaved(q) /\ currentUser = "dentist") =>
      /\ Len(dbNotes') = Len(dbNotes) + 1
      /\ dbNotes'[Len(dbNotes')].tooth_number = q.toothNumber

\* A reload gives the dentist every row back as a note: a general note for
\* tooth number 0, a note on the tooth's mesh otherwise.
ReloadRestores ==
  \A l \in loads :
    (AnnotationsArrive(l) /\ currentUser = "dentist") =>
      \A i \in DOMAIN dbNotes :
        \E j \in DOMAIN annotations' :
          /\ annotations'[j].id = dbNotes[i].id
          /\ annotations'[j].toothName =
               IF dbNotes[i].tooth_number = 0
                 THEN Null
                 ELSE findObjectNameByToothNumber(dbNotes[i].tooth_number)

\* C26: a note a dentist submits for a loaded patient is stored, a general
\* note with tooth number 0, and a reload brings it back, general as general
\* and tooth-bound on the same tooth.
C26_NoteRoundTrip == [][SaveStores /\ ReloadRestores]_vars

\* ------------------------------------------------ markers and removed teeth
\* C27: in every reachable state no cavity marker of the chart is on a tooth
\* of the deleted set.
C27_NoMarkerOnRemovedTooth ==
  \A i \in DOMAIN cavities : cavities[i].toothName \notin deletedParts

\* ------------------------------------------------------ switching patients
\* The calls of loadPatientDataFromDB that may be in flight together.
MaxSwitchLoads == 2

SwitchPatients == Patients \cup {SecondPatient}

\* A dentist's session on a datastore that holds both patients' records and
\* a note for each.
InitSwitch ==
  /\ model = FALSE
  /\ visible = [m \in MeshNames |-> TRUE]
  /\ chewingMode = FALSE
  /\ chewY = 0
  /\ deletedParts = {}
  /\ cavities = << >>
  /\ annotations = << >>
  /\ ctScanCavities = << >>
  /\ selectedPart = Null
  /\ currentUser = "dentist"
  /\ currentPatientId = Null
  /\ loads = {}
  /\ panelPatient = NoPatient
  /\ dbRecord \in InitialRecords
  /\ dbNotes = << DbNote([kind |-> "db", n |-> 1], 30, TRUE),
                  [DbNote([kind |-> "db", n |-> 2], 3, TRUE) EXCEPT !.patient_id = SecondPatient] >>
  /\ saves = {}
  /\ probe = Idle

\* handlePatientLoad with the record the panel has fetched for patientId.
handlePatientLoad(patientId) ==
  /\ currentUser = "dentist"
  /\ Cardinality(loads) < MaxSwitchLoads
  /\ panelPatient' = [patient_id |-> patientId,
                      removed_teeth |-> RecordOf(patientId).removed_teeth]
  /\ currentPatientId' = patientId
  /\ loads' = loads \cup {LoadCall(patientId, "loadPatientData", NullNum)}
  /\ UNCHANGED <<probe, chartVars, sceneVars, currentUser, storeVars, saves>>

NextSwitch ==
  \/ ModelLoaded
  \/ \E patientId \in SwitchPatients : handlePatientLoad(patientId)
  \/ \E l \in loads : RecordArrives(l)
  \/ \E l \in loads : AnnotationsArrive(l)

SpecSwitch == InitSwitch /\ [][NextSwitch]_vars

\* The tooth numbers of the scan cavities on the chart or waiting for the
\* model.
ShownScanTeeth ==
  { getToothInfo(cavities[i].toothName).toothNumber : i \in DOMAIN cavities }
    \cup { ctScanCavities[i].toothNumber : i \in DOMAIN ctScanCavities }

\* C28: once no request is pending, the removed teeth, the scan cavities and
\* the notes on display are those of the current patient.
C28_ChartOfCurrentPatient ==
  (loads = {} /\ currentPatientId # Null) =>
    LET record == RecordOf(currentPatientId)
        rows == VisibleRows(currentUser, currentPatientId)
    IN  /\ deletedParts = RemovedNames(record.removed_teeth)
        /\ ShownScanTeeth = { record.cavities[i].toothNumber : i \in DOMAIN record.cavities }
        /\ { annotations[i].id : i \in DOMAIN annotations } = { rows[i].id : i \in DOMAIN rows }

\* ------------------------------------------- removing a note that is saving
\* A dentist's session in which patient P1 has been loaded, record and
\* notes, before the model: the notes on display are those of the datastore.
InitRemoval ==
  /\ model = FALSE
  /\ visible = [m \in MeshNames |-> TRUE]
  /\ chewingMode = FALSE
  /\ chewY = 0
  /\ deletedParts = {}
  /\ cavities = << >>
  /\ ctScanCavities = << >>
  /\ selectedPart = Null
  /\ currentUser = "dentist"
  /\ currentPatientId = "P1"
  /\ loads = {}
  /\ dbRecord = [removed_teeth |-> {}, cavities |-> << >>]
  /\ panelPatient = PanelRecord(dbRecord)
  /\ dbNotes \in InitialNotes
  /\ annotations = AnnotationEffect(FALSE, ConvertedNotes("dentist", "P1"), 0)
  /\ saves = {}
  /\ probe = Idle

\* The notes' handlers without a further load of the patient.
NextRemoval ==
  \/ ModelLoaded
  \/ \E name \in MeshNames : SelectPart(name)
  \/ ClearSelection
  \/ \E name \in MeshNames \cup {Null}, isPublic \in BOOLEAN : handleAnnotationSubmit(name, isPublic)
  \/ \E q \in saves : AnnotationSaved(q)
  \/ \E i \in 1..MaxNotes : handleRemoveAnnotation(i)

SpecRemoval == InitRemoval /\ [][NextRemoval]_vars

\* C29: once no request is pending, every persisted note is on display, so a
\* note the author has removed, also while its create request was in flight,
\* is not among the persisted notes and cannot come back with a reload.
C29_RemovedNoteStaysRemoved ==
  saves = {} =>
    \A i \in DOMAIN dbNotes :
      \E j \in DOMAIN annotations : annotations[j].id = dbNotes[i].id

====
